---------------------------- MODULE Spec2Model ----------------------------
(***************************************************************************)
(* session-process-monitor: the recording manager (src/src/recording.rs), *)
(* the application state and its tick (src/src/app.rs), the replay state  *)
(* (src/src/replay.rs) and the key handling of the main loop              *)
(* (src/src/main.rs).                                                     *)
(*                                                                         *)
(* Time is in milliseconds.  Instant::now() is the variable now; the wall  *)
(* clock SystemTime::now() in whole seconds is now \div 1000.              *)
(***************************************************************************)
EXTENDS Integers, Sequences, FiniteSets, TLC

(***************************************************************************)
(* Bounds of the model.                                                    *)
(***************************************************************************)
MaxCap == 2
MaxTime == 2000
MaxTimeRM == 2000
MaxFilterLen == 1
MaxPid == 2
MaxAdds == 3
MaxFiles == 2
MaxFilesRM == 1
MaxTimeReplay == 5000
MaxDirFiles == 3
MaxStarts == 2
MaxWork == 1
MaxTimeSampler == 11000
MaxTicks == 2
MaxEventTime == 2000
MaxSamples == 4
MaxUss == 2
MaxTimeWatch == 4000

(***************************************************************************)
(* Program constants.                                                      *)
(***************************************************************************)
DEBOUNCE_MS == 2000
TICK_RATE_MS == 1000
STATUS_MS == 3000
KILL_GRACE_MS == 3000
PAGE == 10
GROWTH_WINDOW == 10
DEFAULT_MAX_AGE_DAYS == 7
SECS_PER_DAY == 86400
DEFAULT_THRESHOLD == 80
VERSION == 1
MAGIC == "SPMR"

\* the clock advances in steps of one tick period
Step == TICK_RATE_MS

Pids == 1..MaxPid
\* process names are sequences of characters
None == [some |-> FALSE]
Some(x) == [some |-> TRUE, val |-> x]

Min(a, b) == IF a < b THEN a ELSE b

\* usize::saturating_sub
saturating_sub(a, b) == IF a >= b THEN a - b ELSE 0

VARIABLES
    now,              \* Instant::now(), ms
    os,               \* the process table read from /proc: pid -> None | Some(reading)
    processes,        \* App.processes
    watched_pids,     \* App.watched_pids
    view_state,       \* App.view_state: filter, selected, filter_active
    status_message,   \* App.status_message
    confirm_kill,     \* App.confirm_kill
    mode,             \* App.mode
    running,          \* App.running
    growth_windows,   \* App.growth_windows
    cpu_samples,      \* proc::CPU_SAMPLES
    disk_samples,     \* proc::DISK_SAMPLES
    proc_readable,    \* whether fs::read_dir("/proc") succeeds
    dir_readable,     \* whether fs::read_dir(recordings_dir) succeeds
    clock_skew,       \* SystemTime::now() minus Instant::now(), ms
    sysfs,            \* the control-group files: path -> file
    incarnation,      \* history: pid -> how many processes have held the PID
    observed,         \* history: pid -> the process last enumerated under the PID
                      \*          and its unbroken run of observations
    buffer,           \* RecordingManager.buffer
    max_snapshots,    \* RecordingManager.max_snapshots
    last_saved_pids,  \* RecordingManager.last_saved_pids
    files,            \* the content of RecordingManager.recordings_dir
    last_tick,        \* run_app's last_tick
    killed,           \* the PIDs process::terminate_process was called with
    pushed,           \* history: every snapshot given to add_snapshot, in order
    last_success,     \* history: pid -> the time save_recording last returned a count for it
    call              \* history: the last operation, its arguments and what it returned

\* SystemTime::now().duration_since(UNIX_EPOCH).unwrap_or_default().as_secs()
\* at the instant t
SystemTimeSecs(t) == IF t + clock_skew < 0 THEN 0 ELSE (t + clock_skew) \div 1000

appVars == <<processes, watched_pids, view_state, status_message, confirm_kill,
             mode, running, last_tick, killed>>
samplerVars == <<growth_windows, cpu_samples, disk_samples, observed>>
envVars == <<proc_readable, dir_readable, clock_skew, incarnation, sysfs>>
rmVars == <<buffer, max_snapshots, last_saved_pids>>
histVars == <<pushed, last_success>>
vars == <<now, os, envVars, appVars, samplerVars, rmVars, files, histVars, call>>

(***************************************************************************)
(* Recording files.  A file is its 4-byte magic tag, its version byte and  *)
(* its payload; header_complete is FALSE for a file shorter than the       *)
(* 5-byte header, and data is None when the payload is not the complete    *)
(* bincode encoding of a Recording.                                        *)
(***************************************************************************)
RecordingId(timestamp, pid) == <<"recording", timestamp, pid>>

\* recordings_dir.join(format!("{}.bin", id))
FilePath(id) == <<"recordings_dir">> \o id \o <<".bin">>

(***************************************************************************)
(* bincode::serialize of a Recording: the fields in the order of their     *)
(* declaration, an integer as one cell, a string or a path as its length   *)
(* and its characters, a vector as its length and its elements.            *)
(***************************************************************************)
RECURSIVE Flatten(_)
Flatten(parts) ==
    IF parts = <<>> THEN <<>> ELSE Head(parts) \o Flatten(Tail(parts))

serialize_string(text) == <<Len(text)>> \o text

serialize_snapshot(snapshot) ==
    <<snapshot.timestamp, Len(snapshot.processes)>>
    \o Flatten([i \in 1..Len(snapshot.processes) |->
                   <<snapshot.processes[i].pid>>
                   \o serialize_string(snapshot.processes[i].name)])

\* mutant: end_time is written before start_time
serializeEndFirst(recording) ==
    serialize_string(recording.metadata.id)
    \o <<recording.metadata.end_time, recording.metadata.start_time,
         recording.metadata.trigger_pid>>
    \o serialize_string(recording.metadata.trigger_name)
    \o <<recording.metadata.snapshot_count>>
    \o serialize_string(recording.metadata.file_path)
    \o <<Len(recording.snapshots)>>
    \o Flatten([i \in 1..Len(recording.snapshots) |->
                   serialize_snapshot(recording.snapshots[i])])

serialize(recording) ==
    serialize_string(recording.metadata.id)
    \o <<recording.metadata.start_time, recording.metadata.end_time,
         recording.metadata.trigger_pid>>
    \o serialize_string(recording.metadata.trigger_name)
    \o <<recording.metadata.snapshot_count>>
    \o serialize_string(recording.metadata.file_path)
    \o <<Len(recording.snapshots)>>
    \o Flatten([i \in 1..Len(recording.snapshots) |->
                   serialize_snapshot(recording.snapshots[i])])

(***************************************************************************)
(* bincode::deserialize: the cells are read back in the same order; a      *)
(* read beyond the end of the data fails.                                  *)
(***************************************************************************)
Fail == [ok |-> FALSE]

Parsed(val, rest) == [ok |-> TRUE, val |-> val, rest |-> rest]

read_string(cells) ==
    IF cells = <<>> \/ Len(cells) - 1 < Head(cells) THEN Fail
    ELSE Parsed(SubSeq(cells, 2, Head(cells) + 1),
                SubSeq(cells, Head(cells) + 2, Len(cells)))

RECURSIVE read_processes(_, _)
read_processes(cells, count) ==
    IF count = 0 THEN Parsed(<<>>, cells)
    ELSE IF cells = <<>> THEN Fail
    ELSE LET name == read_string(Tail(cells))
         IN IF ~name.ok THEN Fail
            ELSE LET more == read_processes(name.rest, count - 1)
                 IN IF ~more.ok THEN Fail
                    ELSE Parsed(<<[pid |-> Head(cells), name |-> name.val]>>
                                \o more.val, more.rest)

RECURSIVE read_snapshots(_, _)
read_snapshots(cells, count) ==
    IF count = 0 THEN Parsed(<<>>, cells)
    ELSE IF Len(cells) < 2 THEN Fail
    ELSE LET procs == read_processes(SubSeq(cells, 3, Len(cells)), cells[2])
         IN IF ~procs.ok THEN Fail
            ELSE LET more == read_snapshots(procs.rest, count - 1)
                 IN IF ~more.ok THEN Fail
                    ELSE Parsed(<<[timestamp |-> cells[1],
                                   processes |-> procs.val]>>
                                \o more.val, more.rest)

deserialize(cells) ==
    LET id == read_string(cells)
    IN IF ~id.ok \/ Len(id.rest) < 3 THEN Fail
       ELSE LET name == read_string(SubSeq(id.rest, 4, Len(id.rest)))
            IN IF ~name.ok \/ name.rest = <<>> THEN Fail
               ELSE LET path == read_string(Tail(name.rest))
                    IN IF ~path.ok \/ path.rest = <<>> THEN Fail
                       ELSE LET snaps == read_snapshots(Tail(path.rest),
                                                       Head(path.rest))
                            IN IF ~snaps.ok THEN Fail
                               ELSE Parsed(
                                   [metadata |->
                                       [id |-> id.val,
                                        start_time |-> id.rest[1],
                                        end_time |-> id.rest[2],
                                        trigger_pid |-> id.rest[3],
                                        trigger_name |-> name.val,
                                        snapshot_count |-> Head(name.rest),
                                        file_path |-> path.val],
                                    snapshots |-> snaps.val],
                                   snaps.rest)

\* a file as its header and the cells after it, the extension of its name
\* and whether the process may open it; File::create makes a file that its
\* creator may open
EmptyFile ==
    [header_complete |-> FALSE, magic |-> "", version |-> 0, data |-> <<>>,
     ext |-> "bin", readable |-> TRUE]

HeaderOnlyFile ==
    [header_complete |-> TRUE, magic |-> MAGIC, version |-> VERSION, data |-> <<>>,
     ext |-> "bin", readable |-> TRUE]

EncodedFile(recording) ==
    [header_complete |-> TRUE, magic |-> MAGIC, version |-> VERSION,
     data |-> serialize(recording), ext |-> "bin", readable |-> TRUE]

\* the directory has a file <id>.bin
HasBin(dir, id) == id \in DOMAIN dir /\ dir[id].ext = "bin"

\* what one attempt to create and write a recording file can end as
IoOutcomes == {"ok", "create_err", "header_err", "data_err"}

Suffix(s, n) == IF Len(s) <= n THEN s ELSE SubSeq(s, Len(s) - n + 1, Len(s))

(***************************************************************************)
(* RecordingManager::add_snapshot                                          *)
(***************************************************************************)
\* mutant: the newest snapshot is the one dropped
RECURSIVE PopBackWhileOver(_, _)
PopBackWhileOver(buf, cap) ==
    IF Len(buf) > cap THEN PopBackWhileOver(SubSeq(buf, 1, Len(buf) - 1), cap) ELSE buf

RECURSIVE PopFrontWhileOver(_, _)
PopFrontWhileOver(buf, cap) ==
    IF Len(buf) > cap THEN PopFrontWhileOver(Tail(buf), cap) ELSE buf

add_snapshot(buf, cap, snapshot) == PopFrontWhileOver(Append(buf, snapshot), cap)

(***************************************************************************)
(* RecordingManager::save_recording, as a function of the manager's state, *)
(* the directory, the two clocks and the outcome of the file writes.  It   *)
(* yields the returned value, the new debounce map and the new directory.  *)
(***************************************************************************)
\* mutant: the comparison with the debounce window is inverted
DebouncedInverted(saved, trigger_pid, t) ==
    /\ trigger_pid \in DOMAIN saved
    /\ t - saved[trigger_pid] >= DEBOUNCE_MS

Debounced(saved, trigger_pid, t) ==
    /\ trigger_pid \in DOMAIN saved
    /\ t - saved[trigger_pid] < DEBOUNCE_MS

\* mutant: the oldest batch of the buffer is left out of the recording
BuildRecordingWithoutOldest(buf, trigger_pid, trigger_name, timestamp) ==
    [metadata |-> [id |-> RecordingId(timestamp, trigger_pid),
                   start_time |-> buf[1].timestamp,
                   end_time |-> buf[Len(buf)].timestamp,
                   trigger_pid |-> trigger_pid,
                   trigger_name |-> trigger_name,
                   snapshot_count |-> Len(buf),
                   file_path |-> FilePath(RecordingId(timestamp, trigger_pid))],
     snapshots |-> Tail(buf)]

BuildRecording(buf, trigger_pid, trigger_name, timestamp) ==
    [metadata |-> [id |-> RecordingId(timestamp, trigger_pid),
                   start_time |-> buf[1].timestamp,
                   end_time |-> buf[Len(buf)].timestamp,
                   trigger_pid |-> trigger_pid,
                   trigger_name |-> trigger_name,
                   snapshot_count |-> Len(buf),
                   file_path |-> FilePath(RecordingId(timestamp, trigger_pid))],
     snapshots |-> buf]

WriteFile(dir, id, content) ==
    [f \in DOMAIN dir \cup {id} |-> IF f = id THEN content ELSE dir[f]]

\* mutant: the trigger time is recorded before the empty check
SaveOnEmptyRecordsTrigger(saved, dir, trigger_pid, t) ==
    [ret |-> None,
     saved |-> [p \in DOMAIN saved \cup {trigger_pid} |->
                  IF p = trigger_pid THEN t ELSE saved[p]],
     dir |-> dir, wrote |-> FALSE]

\* the early return on an empty buffer
SaveOnEmpty(saved, dir, trigger_pid, t) ==
    [ret |-> None, saved |-> saved, dir |-> dir, wrote |-> FALSE]

\* mutant: a save that fails after the debounce test starts the window
SavedAfterFailureStartsWindow(saved, trigger_pid, t) ==
    [p \in DOMAIN saved \cup {trigger_pid} |->
        IF p = trigger_pid THEN t ELSE saved[p]]

\* the debounce map after a `?` has returned None: the insert is the last
\* statement but one of save_recording and has not run
SavedAfterFailure(saved, trigger_pid, t) == saved

save_recording(buf, saved, dir, trigger_pid, trigger_name, t, io) ==
    IF buf = <<>>
    THEN SaveOnEmpty(saved, dir, trigger_pid, t)
    ELSE IF Debounced(saved, trigger_pid, t)
    THEN [ret |-> None, saved |-> saved, dir |-> dir, wrote |-> FALSE]
    ELSE LET timestamp == SystemTimeSecs(t)
             id == RecordingId(timestamp, trigger_pid)
             recording == BuildRecording(buf, trigger_pid, trigger_name, timestamp)
         IN CASE io = "create_err" ->
                   [ret |-> None,
                    saved |-> SavedAfterFailure(saved, trigger_pid, t),
                    dir |-> dir, wrote |-> FALSE]
              [] io = "header_err" ->
                   [ret |-> None,
                    saved |-> SavedAfterFailure(saved, trigger_pid, t),
                    dir |-> WriteFile(dir, id, EmptyFile), wrote |-> TRUE]
              [] io = "data_err" ->
                   [ret |-> None,
                    saved |-> SavedAfterFailure(saved, trigger_pid, t),
                    dir |-> WriteFile(dir, id, HeaderOnlyFile), wrote |-> TRUE]
              [] OTHER ->
                   [ret |-> Some(Len(recording.snapshots)),
                    saved |-> [p \in DOMAIN saved \cup {trigger_pid} |->
                                 IF p = trigger_pid THEN t ELSE saved[p]],
                    dir |-> WriteFile(dir, id, EncodedFile(recording)),
                    wrote |-> TRUE]

(***************************************************************************)
(* The state after construction: App::new and RecordingManager::new.       *)
(***************************************************************************)
EmptyMap == [p \in {} |-> 0]

ProcessSnapshot(pid, name) == [pid |-> pid, name |-> name]

LiveMode == [tag |-> "Live"]

InitApp ==
    /\ now = 0
    /\ os = [p \in Pids |-> None]
    /\ processes = <<>>
    /\ watched_pids = {}
    /\ view_state = [sort_column |-> "Uss", sort_ascending |-> FALSE,
                     filter |-> <<>>, selected |-> 0, filter_active |-> FALSE]
    /\ status_message = None
    /\ confirm_kill = None
    /\ mode = LiveMode
    /\ running = TRUE
    /\ growth_windows = EmptyMap
    /\ cpu_samples = EmptyMap
    /\ disk_samples = EmptyMap
    /\ proc_readable = TRUE
    /\ dir_readable = TRUE
    /\ clock_skew = 0
    /\ sysfs = EmptyMap
    /\ incarnation = [p \in Pids |-> 0]
    /\ observed = EmptyMap
    /\ buffer = <<>>
    /\ last_saved_pids = EmptyMap
    /\ last_tick = 0
    /\ killed = {}
    /\ pushed = <<>>
    /\ last_success = EmptyMap
    /\ call = [op |-> "new"]

(***************************************************************************)
(* RecordingManager::read_recording and load_recording.                    *)
(***************************************************************************)
Ok(x) == [ok |-> TRUE, val |-> x]
Err(e) == [ok |-> FALSE, error |-> e]

\* an io::Error with its kind
IoErr(kind, e) == [ok |-> FALSE, kind |-> kind, error |-> e]

\* mutant: the version byte is not looked at
read_recordingOfAnyVersion(dir, id, open_ok) ==
    IF ~HasBin(dir, id) \/ ~dir[id].readable \/ ~open_ok
    THEN IoErr("Os", "open failed")
    ELSE IF ~dir[id].header_complete
    THEN IoErr("UnexpectedEof", "failed to fill whole buffer")
    ELSE IF dir[id].magic # MAGIC
    THEN IoErr("InvalidData", "invalid recording magic")
    ELSE LET decoded == deserialize(dir[id].data)
         IN IF ~decoded.ok THEN IoErr("InvalidData", "decode error")
            ELSE Ok([decoded.val EXCEPT !.metadata.file_path = FilePath(id)])

read_recording(dir, id, open_ok) ==
    IF ~HasBin(dir, id) \/ ~dir[id].readable \/ ~open_ok
    THEN IoErr("Os", "open failed")
    ELSE IF ~dir[id].header_complete
    THEN IoErr("UnexpectedEof", "failed to fill whole buffer")
    ELSE IF dir[id].magic # MAGIC
    THEN IoErr("InvalidData", "invalid recording magic")
    ELSE IF dir[id].version # VERSION
    THEN IoErr("InvalidData", "unsupported recording version")
    ELSE LET decoded == deserialize(dir[id].data)
         IN IF ~decoded.ok THEN IoErr("InvalidData", "decode error")
            ELSE Ok([decoded.val EXCEPT !.metadata.file_path = FilePath(id)])

load_recording(dir, id, open_ok) == read_recording(dir, id, open_ok)

(***************************************************************************)
(* Files of the directory that are not of this format: one with another   *)
(* magic tag and one of another version.                                   *)
(***************************************************************************)
ForeignRecording ==
    BuildRecording(<<[timestamp |-> 0, processes |-> <<>>]>>, 1, <<"a">>, 0)

ForeignDir ==
    WriteFile(
        WriteFile(EmptyMap, <<"foreign", "magic">>,
                  [EncodedFile(ForeignRecording) EXCEPT !.magic = "SPMX"]),
        <<"foreign", "version">>,
        [EncodedFile(ForeignRecording) EXCEPT !.version = VERSION + 1])

(***************************************************************************)
(* The recording manager on its own: any sequence of add_snapshot and      *)
(* save_recording calls, with time passing between them.                   *)
(***************************************************************************)
InitRM ==
    /\ InitApp
    /\ max_snapshots \in 0..MaxCap
    /\ files = EmptyMap

SnapshotProcs == {<<ProcessSnapshot(1, <<"a">>)>>}

Elapse(d, limit) ==
    /\ now + d <= limit
    /\ now' = now + d
    /\ call' = [op |-> "elapse"]
    /\ UNCHANGED <<os, appVars, envVars, samplerVars, rmVars, files, histVars>>

CallAddSnapshot ==
    \E procs \in SnapshotProcs :
        LET snapshot == [timestamp |-> SystemTimeSecs(now), processes |-> procs]
        IN /\ Len(pushed) < MaxAdds
           /\ buffer' = add_snapshot(buffer, max_snapshots, snapshot)
           /\ pushed' = Append(pushed, snapshot)
           /\ call' = [op |-> "add_snapshot", snapshot |-> snapshot]
           /\ UNCHANGED <<now, os, appVars, envVars, samplerVars, max_snapshots,
                          last_saved_pids, files, last_success>>

RecordSuccess(succ, pid, ret, t) ==
    IF ret.some
    THEN [p \in DOMAIN succ \cup {pid} |-> IF p = pid THEN t ELSE succ[p]]
    ELSE succ

\* a call of save_recording that leaves at most max_files recordings
SaveRecordingCall(max_files) ==
    \E trigger_pid \in Pids, trigger_name \in {<<"a">>}, io \in IoOutcomes :
        LET r == save_recording(buffer, last_saved_pids, files,
                                trigger_pid, trigger_name, now, io)
        IN /\ Cardinality(DOMAIN r.dir \ DOMAIN ForeignDir) <= max_files
           /\ last_saved_pids' = r.saved
           /\ files' = r.dir
           /\ last_success' = RecordSuccess(last_success, trigger_pid, r.ret, now)
           /\ call' = [op |-> "save_recording", pid |-> trigger_pid,
                       name |-> trigger_name, io |-> io, ret |-> r.ret,
                       buffer_was_empty |-> (buffer = <<>>),
                       since_success |->
                           IF trigger_pid \in DOMAIN last_success
                           THEN Some(now - last_success[trigger_pid]) ELSE None,
                       files_changed |-> (r.dir # files),
                       saved_changed |-> (r.saved # last_saved_pids)]
           /\ UNCHANGED <<now, os, appVars, envVars, samplerVars, buffer, max_snapshots,
                          pushed>>

CallSaveRecording == SaveRecordingCall(MaxFilesRM)

CallLoadRecording ==
    \E id \in DOMAIN files \cup {RecordingId(0, 1)}, open_ok \in BOOLEAN :
        /\ call' = [op |-> "load_recording", id |-> id, open_ok |-> open_ok,
                    result |-> load_recording(files, id, open_ok)]
        /\ UNCHANGED <<now, os, appVars, envVars, samplerVars, rmVars, files, histVars>>

NextRM ==
    \/ CallAddSnapshot
    \/ CallSaveRecording
    \/ Elapse(Step, MaxTimeRM)

SpecRM == InitRM /\ [][NextRM]_vars

(***************************************************************************)
(* The recording manager and its directory: recordings are saved into a    *)
(* directory that holds the foreign files, and any file is loaded.         *)
(***************************************************************************)
InitStore ==
    /\ InitApp
    /\ max_snapshots = MaxCap
    /\ files = ForeignDir

NextStore ==
    \/ CallAddSnapshot
    \/ CallSaveRecording
    \/ CallLoadRecording
    \/ Elapse(Step, MaxTimeRM)

SpecStore == InitStore /\ [][NextStore]_vars

(***************************************************************************)
(* The recording manager under a system clock that can be set back: the    *)
(* name of a recording file comes from SystemTime::now(), the debounce     *)
(* from Instant::now().                                                    *)
(***************************************************************************)
ClockSetBack ==
    /\ now + clock_skew >= Step
    /\ clock_skew' = clock_skew - Step
    /\ call' = [op |-> "clock_set_back"]
    /\ UNCHANGED <<now, os, proc_readable, dir_readable, incarnation, sysfs, appVars,
                   samplerVars, rmVars, files, histVars>>

InitClock ==
    /\ InitApp
    /\ max_snapshots = MaxCap
    /\ files = EmptyMap

NextClock ==
    \/ CallAddSnapshot
    \/ CallSaveRecording
    \/ ClockSetBack
    \/ Elapse(Step, MaxTimeRM)

SpecClock == InitClock /\ [][NextClock]_vars

(***************************************************************************)
(* The recording manager saving for several PIDs: the directory has room   *)
(* for the recordings of two of them, and the buffer gets its first batch. *)
(***************************************************************************)
CallSaveRecordingOfAny == SaveRecordingCall(MaxFiles)

CallFirstAddSnapshot == buffer = <<>> /\ CallAddSnapshot

NextDebounce ==
    \/ CallFirstAddSnapshot
    \/ CallSaveRecordingOfAny
    \/ Elapse(Step, MaxTimeRM)

SpecDebounce == InitClock /\ [][NextDebounce]_vars

(***************************************************************************)
(* The process table and proc::collect_processes.  A process of the model  *)
(* has an empty command line, for which collect_processes substitutes the  *)
(* name.                                                                   *)
(***************************************************************************)
Reading(name) ==
    [name |-> name, total_time |-> 0, uss |-> 0, read_bytes |-> 0, write_bytes |-> 0]

Present(o) == {p \in Pids : o[p].some}

\* the orders in which the elements of S can be enumerated
Perms(S) ==
    {f \in [1..Cardinality(S) -> S] :
        \A i, j \in 1..Cardinality(S) : f[i] = f[j] => i = j}

\* /proc lists the PIDs in increasing order
RECURSIVE Ascending(_)
Ascending(S) ==
    IF S = {} THEN <<>>
    ELSE LET least == CHOOSE x \in S : \A y \in S : x <= y
         IN <<least>> \o Ascending(S \ {least})

\* the entries of /proc: none when read_dir fails, and collect_processes
\* returns before its loop
ReadProc(o, readable) == IF readable THEN o ELSE [p \in Pids |-> None]

collect_processes(o) ==
    LET order == Ascending(Present(o))
    IN [i \in 1..Len(order) |-> ProcessSnapshot(order[i], o[order[i]].val.name)]

(***************************************************************************)
(* The sort of App::tick: a stable sort by the sort column, reversed when  *)
(* the direction is descending.  The readings of the model's processes are *)
(* all zero, so the metric columns compare equal.                          *)
(***************************************************************************)
CharRank(c) ==
    CASE c = " " -> 32
      [] c = "A" -> 65
      [] c = "B" -> 66
      [] c = "a" -> 97
      [] c = "b" -> 98
      [] OTHER -> 127

RECURSIVE StrLess(_, _)
StrLess(x, y) ==
    IF y = <<>> THEN FALSE
    ELSE IF x = <<>> THEN TRUE
    ELSE IF CharRank(Head(x)) # CharRank(Head(y))
    THEN CharRank(Head(x)) < CharRank(Head(y))
    ELSE StrLess(Tail(x), Tail(y))

\* Ordering::Less of the comparison closure
SortLess(column, left, right) ==
    CASE column = "Pid" -> left.pid < right.pid
      [] column \in {"Name", "Cmdline"} -> StrLess(left.name, right.name)
      [] OTHER -> FALSE

RECURSIVE StableInsert(_, _, _)
StableInsert(column, sorted, process) ==
    IF sorted = <<>> THEN <<process>>
    ELSE IF SortLess(column, process, sorted[Len(sorted)])
    THEN StableInsert(column, SubSeq(sorted, 1, Len(sorted) - 1), process)
         \o <<sorted[Len(sorted)]>>
    ELSE Append(sorted, process)

RECURSIVE SortBy(_, _)
SortBy(column, list) ==
    IF list = <<>> THEN <<>>
    ELSE StableInsert(column, SortBy(column, SubSeq(list, 1, Len(list) - 1)),
                      list[Len(list)])

Reverse(list) == [i \in 1..Len(list) |-> list[Len(list) + 1 - i]]

SortProcesses(vs, list) ==
    IF vs.sort_ascending THEN SortBy(vs.sort_column, list)
    ELSE Reverse(SortBy(vs.sort_column, list))

(***************************************************************************)
(* compute_cpu_percent and compute_disk_rates.  An f64 result is the ratio *)
(* of two integers, or what IEEE 754 division gives for a zero divisor:    *)
(* NaN for 0/0 and infinity for a positive dividend.  Instants are in ms.  *)
(***************************************************************************)
Zero == [kind |-> "finite", num |-> 0, den |-> 1]

F64Div(num, den) ==
    IF den = 0 THEN (IF num = 0 THEN [kind |-> "NaN"] ELSE [kind |-> "inf"])
    ELSE IF num = 0 THEN Zero
    ELSE [kind |-> "finite", num |-> num, den |-> den]

\* HashMap::get and HashMap::insert
Lookup(map, key) == IF key \in DOMAIN map THEN Some(map[key]) ELSE None

Insert(map, key, value) ==
    [k \in DOMAIN map \cup {key} |-> IF k = key THEN value ELSE map[k]]

\* (delta_ticks / ticks_per_second / elapsed_seconds) * 100
compute_cpu_percent(pid, total_time, t, ticks_per_second, samples) ==
    LET previous == Lookup(samples, pid)
        elapsed == IF previous.some
                   THEN saturating_sub(t, previous.val.timestamp) ELSE 0
    IN [cpu_percent |->
            IF ticks_per_second.some /\ previous.some /\ elapsed > 0
            THEN F64Div(saturating_sub(total_time, previous.val.total_time)
                            * 100 * 1000,
                        ticks_per_second.val * elapsed)
            ELSE Zero,
        samples |-> Insert(samples, pid,
                           [total_time |-> total_time, timestamp |-> t])]

\* mutant: a PID seen for the first time gets the rates of an idle process
compute_disk_ratesIdleAtFirst(pid, read_bytes, write_bytes, t, samples) ==
    LET previous == Lookup(samples, pid)
        elapsed == IF previous.some
                   THEN saturating_sub(t, previous.val.timestamp) ELSE 0
        measured == previous.some /\ elapsed > 0
    IN [read_rate |->
            IF measured
            THEN Some(F64Div(saturating_sub(read_bytes, previous.val.read_bytes)
                                 * 1000, elapsed))
            ELSE Some(Zero),
        write_rate |->
            IF measured
            THEN Some(F64Div(saturating_sub(write_bytes, previous.val.write_bytes)
                                 * 1000, elapsed))
            ELSE Some(Zero),
        samples |-> Insert(samples, pid,
                           [read_bytes |-> read_bytes, write_bytes |-> write_bytes,
                            timestamp |-> t])]

\* delta / elapsed_seconds for the read and the write counter, in bytes per
\* second: the code scales it to MiB per second, dividing by 1024 * 1024
compute_disk_rates(pid, read_bytes, write_bytes, t, samples) ==
    LET previous == Lookup(samples, pid)
        elapsed == IF previous.some
                   THEN saturating_sub(t, previous.val.timestamp) ELSE 0
        measured == previous.some /\ elapsed > 0
    IN [read_rate |->
            IF measured
            THEN Some(F64Div(saturating_sub(read_bytes, previous.val.read_bytes)
                                 * 1000, elapsed))
            ELSE None,
        write_rate |->
            IF measured
            THEN Some(F64Div(saturating_sub(write_bytes, previous.val.write_bytes)
                                 * 1000, elapsed))
            ELSE None,
        samples |-> Insert(samples, pid,
                           [read_bytes |-> read_bytes, write_bytes |-> write_bytes,
                            timestamp |-> t])]

\* CPU_SAMPLES after collect_processes: one entry per enumerated PID
CpuSamplesAfter(o, t) ==
    [p \in Present(o) |-> [total_time |-> o[p].val.total_time, timestamp |-> t]]

\* DISK_SAMPLES after collect_processes
DiskSamplesAfter(o, t) ==
    [p \in Present(o) |-> [read_bytes |-> o[p].val.read_bytes,
                           write_bytes |-> o[p].val.write_bytes,
                           timestamp |-> t]]

\* App.growth_windows after the loop and the retain of App::tick
\* mutant: the windows of the PIDs absent from the tick are kept
GrowthWindowsAfterKeepingAbsent(windows, o, t) ==
    [p \in Present(o) \cup DOMAIN windows |->
        IF p \in Present(o)
        THEN PopFrontWhileOver(
                 Append(IF p \in DOMAIN windows THEN windows[p] ELSE <<>>,
                        <<t, o[p].val.uss>>),
                 GROWTH_WINDOW)
        ELSE windows[p]]

GrowthWindowsAfter(windows, o, t) ==
    [p \in Present(o) |->
        PopFrontWhileOver(
            Append(IF p \in DOMAIN windows THEN windows[p] ELSE <<>>,
                   <<t, o[p].val.uss>>),
            GROWTH_WINDOW)]

\* mutant: the rate of the last step of the window
compute_growth_rateOfLastStep(samples) ==
    IF Len(samples) < 3 THEN None
    ELSE LET first == samples[Len(samples) - 1]
             last == samples[Len(samples)]
             elapsed == saturating_sub(last[1], first[1])
         IN IF elapsed <= 0 THEN None
            ELSE Some(F64Div((last[2] - first[2]) * 60 * 1000, elapsed))

\* compute_growth_rate: delta_bytes / elapsed_minutes between the front and
\* the back of the window, in bytes per minute: the code scales it to MiB
\* per minute, dividing by 1024 * 1024
compute_growth_rate(samples) ==
    IF Len(samples) < 3 THEN None
    ELSE LET first == Head(samples)
             last == samples[Len(samples)]
             elapsed == saturating_sub(last[1], first[1])
         IN IF elapsed <= 0 THEN None
            ELSE Some(F64Div((last[2] - first[2]) * 60 * 1000, elapsed))

\* history: the processes a tick enumerated, each with the observations of
\* its PID in the ticks up to this one without a gap; a tick that enumerates
\* nothing ends every run
ObservedAfter(seen, o, readable, born, t) ==
    IF readable
    THEN [p \in Present(o) |->
            [incarnation |-> born[p],
             run |-> Append(IF p \in DOMAIN seen THEN seen[p].run ELSE <<>>,
                            <<t, o[p].val.uss>>)]]
    ELSE [p \in DOMAIN seen |-> [seen[p] EXCEPT !.run = <<>>]]

(***************************************************************************)
(* The name filter of App::tick: trim, to_lowercase, contains.             *)
(***************************************************************************)
RECURSIVE TrimStart(_)
TrimStart(str) ==
    IF str # <<>> /\ Head(str) = " " THEN TrimStart(Tail(str)) ELSE str

RECURSIVE TrimEnd(_)
TrimEnd(str) ==
    IF str # <<>> /\ str[Len(str)] = " "
    THEN TrimEnd(SubSeq(str, 1, Len(str) - 1)) ELSE str

Trim(str) == TrimEnd(TrimStart(str))

ToLowerChar(c) ==
    CASE c = "A" -> "a"
      [] c = "B" -> "b"
      [] OTHER -> c

to_lowercase(str) == [i \in 1..Len(str) |-> ToLowerChar(str[i])]

Contains(hay, needle) ==
    \E i \in 0..(Len(hay) - Len(needle)) :
        SubSeq(hay, i + 1, i + Len(needle)) = needle

FilterMatches(process, filter) == Contains(to_lowercase(process.name), filter)

ApplyFilter(procs, raw_filter) ==
    LET filter == to_lowercase(Trim(raw_filter))
    IN IF filter = <<>> THEN procs
       ELSE SelectSeq(procs, LAMBDA process : FilterMatches(process, filter))

ClampSelected(selected, n) ==
    IF n = 0 THEN 0
    ELSE IF selected >= n THEN saturating_sub(n, 1)
    ELSE selected

PidsOf(procs) == {procs[i].pid : i \in 1..Len(procs)}

\* the name App::tick gives the trigger: that of the PID in App.processes
NameOf(procs, pid) ==
    IF pid \in PidsOf(procs)
    THEN procs[CHOOSE i \in 1..Len(procs) :
                 /\ procs[i].pid = pid
                 /\ \A j \in 1..(i - 1) : procs[j].pid # pid].name
    ELSE <<"unknown">>

\* App::set_status_message; the text is the message without the names,
\* PIDs and counts formatted into it
set_status_message(text, t) == Some([text |-> text, expires_at |-> t + STATUS_MS])

ExpireStatus(message, t) ==
    IF message.some /\ t >= message.val.expires_at THEN None ELSE message

\* App::selected_process
selected_process(procs, selected) ==
    IF procs = <<>> THEN None
    ELSE IF selected < Len(procs) THEN Some(procs[selected + 1])
    ELSE None

\* mutant: the recording steps of a tick also run while the list is shown
IsLiveOrRecordingList(m) == m.tag \in {"Live", "RecordingList"}

\* self.mode == AppMode::Live
IsLive(m) == m.tag = "Live"

\* mutant: the PID stays watched when its save returned None
WatchedAfterSaveOnlyOnSuccess(watched, pid, ret) ==
    IF ret.some THEN watched \ {pid} ELSE watched

\* the watch set after the save attempt for a vanished PID
WatchedAfterSave(watched, pid, ret) == watched \ {pid}

\* mutant: the batch of the tick is added before the watch set is checked
BufferAtSaveAfterAdd(buf, cap, batch) == add_snapshot(buf, cap, batch)

\* the ring buffer that the saves of a tick copy: App::tick runs its save
\* loop before it hands the batch of the tick to add_snapshot
BufferAtSave(buf, cap, batch) == buf

(***************************************************************************)
(* The loop of App::tick over the vanished PIDs that are watched, in the   *)
(* order the hash set yields them.  st carries the debounce map, the       *)
(* directory, the watch set, the status message and the log of the calls.  *)
(***************************************************************************)
RECURSIVE TickSaves(_, _, _, _, _, _, _)
TickSaves(order, prev_procs, buf, batch, st, io, t) ==
    IF order = <<>> THEN st
    ELSE LET pid == Head(order)
             name == NameOf(prev_procs, pid)
             r == save_recording(buf, st.saved, st.dir, pid, name, t, io[pid])
         IN TickSaves(Tail(order), prev_procs, buf, batch,
                [saved |-> r.saved,
                 dir |-> r.dir,
                 watched |-> WatchedAfterSave(st.watched, pid, r.ret),
                 status |-> IF r.ret.some
                            THEN set_status_message("Recording saved", t)
                            ELSE st.status,
                 log |-> Append(st.log,
                             [pid |-> pid, name |-> name, ret |-> r.ret,
                              saw_batch |-> \E i \in 1..Len(buf) : buf[i] = batch])],
                io, t)

(***************************************************************************)
(* App::tick, called by run_app once tick_rate has elapsed.                *)
(***************************************************************************)
Tick ==
    /\ running
    /\ now - last_tick >= TICK_RATE_MS
    /\ LET listed == ReadProc(os, proc_readable)
            sampled == SortProcesses(view_state, collect_processes(listed))
            shown == ApplyFilter(sampled, view_state.filter)
            prev_pids == PidsOf(processes)
            curr_pids == PidsOf(shown)
            todo == IF IsLive(mode)
                    THEN (prev_pids \ curr_pids) \cap watched_pids
                    ELSE {}
            batch == [timestamp |-> SystemTimeSecs(now), processes |-> shown]
       IN \E order \in Perms(todo), io \in [todo -> IoOutcomes] :
            LET st == TickSaves(order, processes,
                          BufferAtSave(buffer, max_snapshots, batch), batch,
                          [saved |-> last_saved_pids, dir |-> files,
                           watched |-> watched_pids,
                           status |-> ExpireStatus(status_message, now),
                           log |-> <<>>],
                          io, now)
            IN /\ (st.dir # files) => Cardinality(DOMAIN st.dir) <= MaxFiles
               /\ cpu_samples' = IF proc_readable
                                 THEN CpuSamplesAfter(listed, now)
                                 ELSE cpu_samples
               /\ disk_samples' = IF proc_readable
                                  THEN DiskSamplesAfter(listed, now)
                                  ELSE disk_samples
               /\ growth_windows' =
                      GrowthWindowsAfter(growth_windows, listed, now)
               /\ observed' = ObservedAfter(observed, os, proc_readable,
                                            incarnation, now)
               /\ view_state' = [view_state EXCEPT
                      !.selected = ClampSelected(view_state.selected, Len(shown))]
               /\ last_saved_pids' = st.saved
               /\ files' = st.dir
               /\ watched_pids' = st.watched
               /\ status_message' = st.status
               /\ processes' = shown
               /\ buffer' = IF IsLive(mode)
                            THEN add_snapshot(buffer, max_snapshots, batch)
                            ELSE buffer
               /\ last_tick' = now
               /\ call' = [op |-> "tick", mode |-> mode.tag,
                           vanished_watched |->
                               (prev_pids \ curr_pids) \cap watched_pids,
                           saves |-> st.log,
                           recording_untouched |->
                               /\ buffer' = buffer
                               /\ last_saved_pids' = last_saved_pids
                               /\ watched_pids' = watched_pids
                               /\ files' = files,
                           sampler_untouched |->
                               /\ processes' = processes
                               /\ cpu_samples' = cpu_samples
                               /\ disk_samples' = disk_samples
                               /\ growth_windows' = growth_windows]
               /\ UNCHANGED <<now, os, envVars, confirm_kill, mode, running,
                              killed, max_snapshots, histVars>>

\* a process starts: /proc gains an entry
Spawn(names) ==
    \E pid \in Pids, name \in names :
        /\ ~os[pid].some
        /\ os' = [os EXCEPT ![pid] = Some(Reading(name))]
        /\ call' = [op |-> "spawn"]
        /\ UNCHANGED <<now, appVars, envVars, samplerVars, rmVars, files, histVars>>

\* a process exits: /proc loses its entry
Exit ==
    \E pid \in Pids :
        /\ os[pid].some
        /\ os' = [os EXCEPT ![pid] = None]
        /\ call' = [op |-> "exit"]
        /\ UNCHANGED <<now, appVars, envVars, samplerVars, rmVars, files, histVars>>

\* App::toggle_watch
ToggleWatch ==
    /\ running
    /\ LET process == selected_process(processes, view_state.selected)
       IN /\ watched_pids' =
                 IF ~process.some THEN watched_pids
                 ELSE IF process.val.pid \in watched_pids
                 THEN watched_pids \ {process.val.pid}
                 ELSE watched_pids \cup {process.val.pid}
          /\ status_message' =
                 IF ~process.some THEN status_message
                 ELSE IF process.val.pid \in watched_pids
                 THEN set_status_message("Unwatched", now)
                 ELSE set_status_message("Watching", now)
    /\ call' = [op |-> "toggle_watch"]
    /\ UNCHANGED <<now, os, processes, view_state, confirm_kill, mode, running,
                   last_tick, killed, envVars, samplerVars, rmVars, files, histVars>>

(***************************************************************************)
(* RecordingManager::list_recordings and delete_recording.                 *)
(***************************************************************************)
\* mutant: the oldest recording comes first
RECURSIVE InsertByEndTimeAsc(_, _)
InsertByEndTimeAsc(sorted, metadata) ==
    IF sorted = <<>> THEN <<metadata>>
    ELSE IF Head(sorted).end_time <= metadata.end_time
    THEN <<Head(sorted)>> \o InsertByEndTimeAsc(Tail(sorted), metadata)
    ELSE <<metadata>> \o sorted

\* sort_by is stable: an entry goes behind those of the same end_time
RECURSIVE InsertByEndTimeDesc(_, _)
InsertByEndTimeDesc(sorted, metadata) ==
    IF sorted = <<>> THEN <<metadata>>
    ELSE IF Head(sorted).end_time >= metadata.end_time
    THEN <<Head(sorted)>> \o InsertByEndTimeDesc(Tail(sorted), metadata)
    ELSE <<metadata>> \o sorted

RECURSIVE SortByEndTimeDesc(_)
SortByEndTimeDesc(list) ==
    IF list = <<>> THEN <<>>
    ELSE InsertByEndTimeDesc(SortByEndTimeDesc(SubSeq(list, 1, Len(list) - 1)),
                             list[Len(list)])

RECURSIVE DecodedMetadata(_, _)
DecodedMetadata(dir, entries) ==
    IF entries = <<>> THEN <<>>
    ELSE LET r == read_recording(dir, Head(entries), TRUE)
         IN (IF dir[Head(entries)].ext = "bin" /\ r.ok
             THEN <<r.val.metadata>> ELSE <<>>)
            \o DecodedMetadata(dir, Tail(entries))

\* fs::read_dir: the files of the directory in some order, or an error
read_dir(dir, readable) ==
    IF readable THEN {Some(order) : order \in Perms(DOMAIN dir)} ELSE {None}

\* entries: what read_dir yielded
list_recordings(dir, entries) ==
    IF ~entries.some THEN <<>>
    ELSE SortByEndTimeDesc(DecodedMetadata(dir, entries.val))

\* mutant: the file is gone although remove_file reported an error
delete_recordingLosingFile(dir, id, remove_ok) ==
    IF HasBin(dir, id)
    THEN [ret |-> IF remove_ok THEN Ok(0) ELSE Err("remove failed"),
          dir |-> [f \in DOMAIN dir \ {id} |-> dir[f]]]
    ELSE [ret |-> Err("remove failed"), dir |-> dir]

\* fs::remove_file
delete_recording(dir, id, remove_ok) ==
    IF HasBin(dir, id) /\ remove_ok
    THEN [ret |-> Ok(0), dir |-> [f \in DOMAIN dir \ {id} |-> dir[f]]]
    ELSE [ret |-> Err("remove failed"), dir |-> dir]

(***************************************************************************)
(* RecordingManager::cleanup_old_recordings, the retention sweep of        *)
(* RecordingManager::new.  stat gives, for each file, what the sweep       *)
(* learns of it: whether its metadata and modification time can be read,   *)
(* its age in seconds (None when now.duration_since(modified) fails, the   *)
(* modification time being later than now) and whether remove_file         *)
(* succeeds.                                                               *)
(***************************************************************************)
\* SPM_RECORDING_MAX_AGE_DAYS, or 7 when it is not set or not a number
max_age_days(value) == IF value.some THEN value.val ELSE DEFAULT_MAX_AGE_DAYS

max_age_secs(days) == days * SECS_PER_DAY

\* mutant: a file of exactly the maximum age is removed too
SweepsAtLimit(file, st, max_age) ==
    /\ file.ext = "bin"
    /\ st.stat_ok
    /\ st.age.some
    /\ st.age.val >= max_age
    /\ st.remove_ok

\* the file is removed by the sweep
Sweeps(file, st, max_age) ==
    /\ file.ext = "bin"
    /\ st.stat_ok
    /\ st.age.some
    /\ st.age.val > max_age
    /\ st.remove_ok

cleanup_old_recordings(dir, readable, stat, max_age) ==
    IF ~readable THEN dir
    ELSE [f \in {g \in DOMAIN dir : ~Sweeps(dir[g], stat[g], max_age)} |-> dir[f]]

(***************************************************************************)
(* The storage directory on its own: a directory of a few files, valid     *)
(* recordings and others, is swept when the program starts, and is then    *)
(* listed and loses files to delete_recording.                             *)
(***************************************************************************)
StoredRecording(end_time, pid) ==
    BuildRecording(<<[timestamp |-> 0, processes |-> <<>>],
                     [timestamp |-> end_time, processes |-> <<>>]>>,
                   pid, <<"a">>, end_time)

DirCandidates ==
    LET valid == [id \in {RecordingId(1, 1), RecordingId(2, 1), RecordingId(2, 2)}
                    |-> EncodedFile(StoredRecording(id[2], id[3]))]
        other == (<<"notes">> :>
                      [EncodedFile(StoredRecording(3, 1)) EXCEPT !.ext = "txt"])
                 @@ (<<"locked">> :>
                      [EncodedFile(StoredRecording(3, 2)) EXCEPT !.readable = FALSE])
                 @@ (RecordingId(0, 1) :> HeaderOnlyFile)
    IN valid @@ other @@ ForeignDir

DirSet ==
    {[f \in names |-> DirCandidates[f]] :
        names \in {n \in SUBSET DOMAIN DirCandidates : Cardinality(n) <= MaxDirFiles}}

\* what the sweep can learn of a file
StatOutcomes(max_age) ==
    {[stat_ok |-> FALSE, age |-> None, remove_ok |-> TRUE],
     [stat_ok |-> TRUE, age |-> None, remove_ok |-> TRUE]}
    \cup {[stat_ok |-> TRUE, age |-> Some(a), remove_ok |-> TRUE] :
              a \in {max_age, max_age + 1}}
    \cup {[stat_ok |-> TRUE, age |-> Some(max_age + 1), remove_ok |-> FALSE]}

\* the state in which the program is started
\* the state before ("start") and after ("opened") RecordingManager::new
InitDirAt(op) ==
    /\ now = 0
    /\ os = [p \in Pids |-> None]
    /\ processes = <<>>
    /\ watched_pids = {}
    /\ view_state = [sort_column |-> "Uss", sort_ascending |-> FALSE,
                     filter |-> <<>>, selected |-> 0, filter_active |-> FALSE]
    /\ status_message = None
    /\ confirm_kill = None
    /\ mode = LiveMode
    /\ running = TRUE
    /\ growth_windows = EmptyMap
    /\ cpu_samples = EmptyMap
    /\ disk_samples = EmptyMap
    /\ proc_readable = TRUE
    /\ dir_readable \in BOOLEAN
    /\ clock_skew = 0
    /\ sysfs = EmptyMap
    /\ incarnation = [p \in Pids |-> 0]
    /\ observed = EmptyMap
    /\ buffer = <<>>
    /\ last_saved_pids = EmptyMap
    /\ last_tick = 0
    /\ killed = {}
    /\ pushed = <<>>
    /\ last_success = EmptyMap
    /\ call = [op |-> op]
    /\ max_snapshots = MaxCap
    /\ files \in DirSet

InitDir == InitDirAt("start")

InitOpened == InitDirAt("opened")

\* the program starts: RecordingManager::new
CallNew ==
    \E days \in {None, Some(0)} :
        LET max_age == max_age_secs(max_age_days(days))
        IN \E stat \in [DOMAIN files -> StatOutcomes(max_age)] :
            /\ call.op = "start"
            /\ files' = cleanup_old_recordings(files, dir_readable, stat, max_age)
            /\ buffer' = <<>>
            /\ last_saved_pids' = EmptyMap
            /\ call' = [op |-> "new", stat |-> stat, max_age |-> max_age]
            /\ UNCHANGED <<now, os, envVars, appVars, samplerVars, max_snapshots,
                           histVars>>

CallListRecordings ==
    \E entries \in read_dir(files, dir_readable) :
        /\ call' = [op |-> "list_recordings", entries |-> entries,
                    result |-> list_recordings(files, entries)]
        /\ UNCHANGED <<now, os, envVars, appVars, samplerVars, rmVars, files,
                       histVars>>

CallDeleteRecording ==
    \E id \in DOMAIN DirCandidates, remove_ok \in BOOLEAN :
        LET d == delete_recording(files, id, remove_ok)
        IN /\ files' = d.dir
           /\ call' = [op |-> "delete_recording", id |-> id, ret |-> d.ret]
           /\ UNCHANGED <<now, os, envVars, appVars, samplerVars, rmVars, histVars>>

\* the permissions of the directory change
SetDirReadable ==
    /\ dir_readable' = ~dir_readable
    /\ call' = [op |-> "chmod"]
    /\ UNCHANGED <<now, os, proc_readable, clock_skew, incarnation, sysfs, appVars,
                   samplerVars, rmVars, files, histVars>>

\* the sweep at the start of the program
SpecSweep == InitDir /\ [][CallNew]_vars

\* the directory of an opened manager
NextDir == CallListRecordings \/ CallDeleteRecording \/ SetDirReadable

SpecDir == InitOpened /\ [][NextDir]_vars

(***************************************************************************)
(* AppMode and PlaybackSpeed (replay.rs).                                  *)
(***************************************************************************)
RecordingList(recordings, selected) ==
    [tag |-> "RecordingList", recordings |-> recordings, selected |-> selected]

Replay(recording, current_index, speed, playing, last_advance_time) ==
    [tag |-> "Replay", recording |-> recording, current_index |-> current_index,
     speed |-> speed, playing |-> playing, last_advance_time |-> last_advance_time]

interval_ms(speed) ==
    CASE speed = "Half" -> 2000
      [] speed = "Normal" -> 1000
      [] speed = "Double" -> 500
      [] speed = "Fast" -> 200
      [] speed = "VeryFast" -> 100

\* mutant: the fastest speed is followed by the slowest
nextWrapping(speed) ==
    CASE speed = "Half" -> "Normal"
      [] speed = "Normal" -> "Double"
      [] speed = "Double" -> "Fast"
      [] speed = "Fast" -> "VeryFast"
      [] speed = "VeryFast" -> "Half"

next(speed) ==
    CASE speed = "Half" -> "Normal"
      [] speed = "Normal" -> "Double"
      [] speed = "Double" -> "Fast"
      [] speed = "Fast" -> "VeryFast"
      [] speed = "VeryFast" -> "VeryFast"

prev(speed) ==
    CASE speed = "Half" -> "Half"
      [] speed = "Normal" -> "Half"
      [] speed = "Double" -> "Normal"
      [] speed = "Fast" -> "Double"
      [] speed = "VeryFast" -> "Fast"

\* Vec::get
Get(list, index) == IF index < Len(list) THEN Some(list[index + 1]) ELSE None

(***************************************************************************)
(* run_app: a key event while the recording list is shown.                 *)
(***************************************************************************)
KeyReady == running /\ ~confirm_kill.some

InList == KeyReady /\ mode.tag = "RecordingList"

KeyOnly(op) ==
    /\ call' = [op |-> op]
    /\ UNCHANGED <<now, os, envVars, samplerVars, rmVars, histVars, last_tick, killed>>

ListKeyUp ==
    /\ InList
    /\ mode' = IF mode.recordings # <<>>
               THEN [mode EXCEPT !.selected = saturating_sub(mode.selected, 1)]
               ELSE mode
    /\ KeyOnly("list_up")
    /\ UNCHANGED <<processes, watched_pids, view_state, status_message,
                   confirm_kill, running, files>>

ListKeyDown ==
    /\ InList
    /\ mode' = IF mode.recordings # <<>>
               THEN [mode EXCEPT !.selected =
                        Min(mode.selected + 1,
                            saturating_sub(Len(mode.recordings), 1))]
               ELSE mode
    /\ KeyOnly("list_down")
    /\ UNCHANGED <<processes, watched_pids, view_state, status_message,
                   confirm_kill, running, files>>

\* mutant: every recording that loads is replayed, also one without snapshots
ModeAfterLoadOfAny(m, loaded, t) ==
    IF loaded.ok THEN Replay(loaded.val, 0, "Normal", FALSE, t) ELSE m

\* the mode after Enter on a list entry: load_recording and its three outcomes
ModeAfterLoad(m, loaded, t) ==
    IF loaded.ok /\ loaded.val.snapshots # <<>>
    THEN Replay(loaded.val, 0, "Normal", FALSE, t)
    ELSE m

StatusAfterLoad(message, loaded, t) ==
    IF ~loaded.ok
    THEN set_status_message("Failed to load recording: " \o loaded.error, t)
    ELSE IF loaded.val.snapshots = <<>>
    THEN set_status_message("Recording has no snapshots", t)
    ELSE message

ListKeyEnter ==
    /\ InList
    /\ \E open_ok \in BOOLEAN :
        LET entry == Get(mode.recordings, mode.selected)
            loaded == load_recording(files, entry.val.id, open_ok)
        IN /\ mode' = IF entry.some THEN ModeAfterLoad(mode, loaded, now) ELSE mode
           /\ status_message' = IF entry.some
                                THEN StatusAfterLoad(status_message, loaded, now)
                                ELSE status_message
           /\ call' = [op |-> "list_enter", entry |-> entry,
                       loaded |-> IF entry.some THEN Some(loaded) ELSE None,
                       mode_before |-> mode]
    /\ UNCHANGED <<now, os, envVars, samplerVars, rmVars, histVars, last_tick, killed,
                   processes, watched_pids, view_state, confirm_kill, running,
                   files>>

ListKeyDelete ==
    /\ InList
    /\ \E remove_ok \in BOOLEAN :
        LET entry == Get(mode.recordings, mode.selected)
            d == delete_recording(files, entry.val.id, remove_ok)
            dir == IF entry.some THEN d.dir ELSE files
        IN \E listing \in {list_recordings(dir, e) : e \in read_dir(dir, dir_readable)} :
           /\ files' = dir
           /\ status_message' =
                  IF entry.some /\ ~d.ret.ok
                  THEN set_status_message(
                           "Failed to delete recording: " \o d.ret.error, now)
                  ELSE status_message
           /\ mode' = IF entry.some
                      THEN RecordingList(listing,
                               IF listing = <<>> THEN 0
                               ELSE Min(mode.selected,
                                        saturating_sub(Len(listing), 1)))
                      ELSE mode
           /\ call' = [op |-> "list_delete", entry |-> entry,
                       ret |-> IF entry.some THEN Some(d.ret) ELSE None]
    /\ UNCHANGED <<now, os, envVars, samplerVars, rmVars, histVars, last_tick, killed,
                   processes, watched_pids, view_state, confirm_kill, running>>

ListKeyEsc ==
    /\ InList
    /\ mode' = LiveMode
    /\ KeyOnly("list_esc")
    /\ UNCHANGED <<processes, watched_pids, view_state, status_message,
                   confirm_kill, running, files>>

(***************************************************************************)
(* run_app: a key event during replay, and the autonomous advance.         *)
(***************************************************************************)
InReplay == KeyReady /\ mode.tag = "Replay"

\* mutant: the last index is taken to be the number of snapshots
MaxIndexIsLen(m) == Len(m.recording.snapshots)

MaxIndex(m) == saturating_sub(Len(m.recording.snapshots), 1)

\* mutant: a key of the replay also removes the stored recordings
ReplayKeyDropsFiles(op, m) ==
    /\ InReplay
    /\ mode' = m
    /\ files' = EmptyMap
    /\ KeyOnly(op)
    /\ UNCHANGED <<processes, watched_pids, view_state, status_message,
                   confirm_kill, running>>

ReplayKey(op, m) ==
    /\ InReplay
    /\ mode' = m
    /\ KeyOnly(op)
    /\ UNCHANGED <<processes, watched_pids, view_state, status_message,
                   confirm_kill, running, files>>

\* mutant: leaving the replay goes back to the recording list
ReplayKeyExitToList == ReplayKey("replay_exit", RecordingList(<<>>, 0))

ReplayKeyExit == ReplayKey("replay_exit", LiveMode)

ReplayKeyLeft ==
    ReplayKey("replay_left",
        [mode EXCEPT !.current_index = saturating_sub(mode.current_index, 1),
                     !.last_advance_time = now])

ReplayKeyRight ==
    ReplayKey("replay_right",
        [mode EXCEPT !.current_index = IF mode.current_index < MaxIndex(mode)
                                       THEN mode.current_index + 1
                                       ELSE mode.current_index,
                     !.last_advance_time = now])

\* mutant: a page back goes to the first snapshot
ReplayKeyPageUpToStart ==
    ReplayKey("replay_page_up",
        [mode EXCEPT !.current_index = 0, !.last_advance_time = now])

ReplayKeyPageUp ==
    ReplayKey("replay_page_up",
        [mode EXCEPT !.current_index = saturating_sub(mode.current_index, PAGE),
                     !.last_advance_time = now])

ReplayKeyPageDown ==
    ReplayKey("replay_page_down",
        [mode EXCEPT !.current_index = Min(mode.current_index + PAGE, MaxIndex(mode)),
                     !.last_advance_time = now])

ReplayKeyHome ==
    ReplayKey("replay_home",
        [mode EXCEPT !.current_index = 0, !.last_advance_time = now])

ReplayKeyEnd ==
    ReplayKey("replay_end",
        [mode EXCEPT !.current_index = MaxIndex(mode), !.last_advance_time = now])

\* mutant: the toggle leaves the advance anchor where it was
ReplayKeySpaceKeepsAnchor ==
    ReplayKey("replay_space", [mode EXCEPT !.playing = ~mode.playing])

ReplayKeySpace ==
    ReplayKey("replay_space",
        [mode EXCEPT !.playing = ~mode.playing, !.last_advance_time = now])

ReplayKeyPlus ==
    ReplayKey("replay_plus",
        [mode EXCEPT !.speed = next(mode.speed), !.last_advance_time = now])

ReplayKeyMinus ==
    ReplayKey("replay_minus",
        [mode EXCEPT !.speed = prev(mode.speed), !.last_advance_time = now])

\* the replay state after the check at the end of a loop iteration in which
\* the interval has elapsed
Advanced(m, t) ==
    IF m.recording.snapshots = <<>> THEN [m EXCEPT !.playing = FALSE]
    ELSE IF m.current_index < MaxIndex(m)
    THEN [m EXCEPT !.current_index = m.current_index + 1, !.last_advance_time = t]
    ELSE [m EXCEPT !.playing = FALSE]

\* mutant: the advance does not wait for the interval
AdvanceDueAtOnce(m, t) == TRUE

\* elapsed >= Duration::from_millis(state.speed.interval_ms())
AdvanceDue(m, t) == t - m.last_advance_time >= interval_ms(m.speed)

ReplayAdvance ==
    /\ running
    /\ mode.tag = "Replay"
    /\ mode.playing
    /\ AdvanceDue(mode, now)
    /\ mode' = Advanced(mode, now)
    /\ KeyOnly("replay_advance")
    /\ UNCHANGED <<processes, watched_pids, view_state, status_message,
                   confirm_kill, running, files>>

(***************************************************************************)
(* run_app: a key event in Live mode, and while a kill is to be confirmed. *)
(***************************************************************************)
InLive == KeyReady /\ mode.tag = "Live"

FilterChars == {"a", "b"}

LiveKey(op, vs) ==
    /\ view_state' = vs
    /\ KeyOnly(op)
    /\ UNCHANGED <<processes, watched_pids, status_message, confirm_kill,
                   mode, running, files>>

\* the selection is reset when a filter key changed the filter
AfterFilterKey(vs) ==
    IF vs.filter # view_state.filter THEN [vs EXCEPT !.selected = 0] ELSE vs

FilterKeyChar ==
    /\ InLive /\ view_state.filter_active
    /\ Len(view_state.filter) < MaxFilterLen
    /\ \E ch \in FilterChars :
        LiveKey("filter_char",
            AfterFilterKey([view_state EXCEPT !.filter = Append(@, ch)]))

FilterKeyBackspace ==
    /\ InLive /\ view_state.filter_active
    /\ LiveKey("filter_backspace",
           AfterFilterKey([view_state EXCEPT !.filter =
               IF @ = <<>> THEN <<>> ELSE SubSeq(@, 1, Len(@) - 1)]))

FilterKeyEsc ==
    /\ InLive /\ view_state.filter_active
    /\ LiveKey("filter_esc",
           AfterFilterKey([view_state EXCEPT !.filter = <<>>,
                                             !.filter_active = FALSE]))

FilterKeyEnter ==
    /\ InLive /\ view_state.filter_active
    /\ LiveKey("filter_enter", [view_state EXCEPT !.filter_active = FALSE])

LiveKeySlash ==
    /\ InLive /\ ~view_state.filter_active
    /\ LiveKey("live_slash", [view_state EXCEPT !.filter_active = TRUE])

LiveKeyUp ==
    /\ InLive /\ ~view_state.filter_active
    /\ LiveKey("live_up",
           IF processes # <<>>
           THEN [view_state EXCEPT !.selected = saturating_sub(@, 1)]
           ELSE view_state)

LiveKeyDown ==
    /\ InLive /\ ~view_state.filter_active
    /\ LiveKey("live_down",
           IF processes # <<>>
           THEN [view_state EXCEPT !.selected =
                    Min(@ + 1, saturating_sub(Len(processes), 1))]
           ELSE view_state)

LiveKeyQuit ==
    /\ InLive /\ ~view_state.filter_active
    /\ running' = FALSE
    /\ KeyOnly("live_quit")
    /\ UNCHANGED <<processes, watched_pids, view_state, status_message,
                   confirm_kill, mode, files>>

LiveKeyR ==
    /\ InLive /\ ~view_state.filter_active
    /\ \E entries \in read_dir(files, dir_readable) :
        mode' = RecordingList(list_recordings(files, entries), 0)
    /\ KeyOnly("live_R")
    /\ UNCHANGED <<processes, watched_pids, view_state, status_message,
                   confirm_kill, running, files>>

LiveKeyK ==
    /\ InLive /\ ~view_state.filter_active
    /\ LET process == selected_process(processes, view_state.selected)
       IN /\ confirm_kill' = IF process.some
                             THEN Some([pid |-> process.val.pid,
                                        name |-> process.val.name])
                             ELSE confirm_kill
          /\ status_message' = IF process.some THEN status_message
                               ELSE set_status_message("No process selected", now)
    /\ KeyOnly("live_k")
    /\ UNCHANGED <<processes, watched_pids, view_state, mode, running, files>>

\* a key without an arm of its own in the match of the live view, 'w' among
\* them: `_ => {}`
LiveKeyW ==
    /\ InLive /\ ~view_state.filter_active
    /\ LiveKey("live_w", view_state)

\* a key other than 'y', 'n' and Esc while a confirmation is pending
ConfirmKeyOther ==
    /\ running /\ confirm_kill.some
    /\ KeyOnly("confirm_other")
    /\ UNCHANGED <<processes, watched_pids, view_state, status_message,
                   confirm_kill, mode, running, files>>

ConfirmKeyNo ==
    /\ running /\ confirm_kill.some
    /\ confirm_kill' = None
    /\ KeyOnly("confirm_no")
    /\ UNCHANGED <<processes, watched_pids, view_state, status_message,
                   mode, running, files>>

\* process::terminate_process on 'y': SIGTERM, a sleep of 3 seconds, SIGKILL
\* if the process is still there; or the signal could not be sent
\* mutant: 'y' terminates the process that is selected when it is pressed
ConfirmKeyYesOfSelected ==
    /\ running /\ confirm_kill.some
    /\ \E sent \in BOOLEAN, outcome \in {"terminated", "force-killed"} :
        LET process == selected_process(processes, view_state.selected)
            pid == IF process.some THEN process.val.pid ELSE confirm_kill.val.pid
        IN /\ sent => (os[pid].some /\ now + KILL_GRACE_MS <= MaxTime)
           /\ killed' = killed \cup {pid}
           /\ os' = IF sent THEN [os EXCEPT ![pid] = None] ELSE os
           /\ now' = IF sent THEN now + KILL_GRACE_MS ELSE now
           /\ status_message' =
                  set_status_message(
                      IF sent THEN outcome ELSE "Failed to send SIGTERM", now')
           /\ confirm_kill' = None
    /\ call' = [op |-> "confirm_yes"]
    /\ UNCHANGED <<processes, watched_pids, view_state, mode, running, last_tick,
                   envVars, samplerVars, rmVars, files, histVars>>

ConfirmKeyYes ==
    /\ running /\ confirm_kill.some
    /\ \E sent \in BOOLEAN, outcome \in {"terminated", "force-killed"} :
        LET pid == confirm_kill.val.pid
        IN /\ sent => (os[pid].some /\ now + KILL_GRACE_MS <= MaxTime)
           /\ killed' = killed \cup {pid}
           /\ os' = IF sent THEN [os EXCEPT ![pid] = None] ELSE os
           /\ now' = IF sent THEN now + KILL_GRACE_MS ELSE now
           /\ status_message' =
                  set_status_message(
                      IF sent THEN outcome ELSE "Failed to send SIGTERM", now')
           /\ confirm_kill' = None
    /\ call' = [op |-> "confirm_yes"]
    /\ UNCHANGED <<processes, watched_pids, view_state, mode, running, last_tick,
                   envVars, samplerVars, rmVars, files, histVars>>

(***************************************************************************)
(* The application around its tick: processes come and go, the watch set   *)
(* is toggled, the filter is edited and the mode changes.                  *)
(***************************************************************************)
\* a recording left in the directory by an earlier run
OldRecording ==
    BuildRecording(<<[timestamp |-> 0, processes |-> <<>>]>>, 1, <<"a">>, 0)

OldDir == WriteFile(EmptyMap, OldRecording.metadata.id, EncodedFile(OldRecording))

InitTick ==
    /\ InitApp
    /\ max_snapshots = MaxCap
    /\ files \in {EmptyMap, OldDir}

\* time passes in the main loop, which runs a due tick before it polls again
LoopElapse ==
    /\ now - last_tick < TICK_RATE_MS
    /\ Elapse(Step, MaxTime)

NextTick ==
    \/ Spawn({<<"a">>})
    \/ Exit
    \/ Tick
    \/ ToggleWatch
    \/ LoopElapse
    \/ LiveKeyUp
    \/ LiveKeyDown
    \/ LiveKeyR
    \/ ListKeyEsc
    \/ ListKeyEnter
    \/ ReplayKeyExit

SpecTick == InitTick /\ [][NextTick]_vars

(***************************************************************************)
(* The sampler over a long run: processes start under a free PID, run and  *)
(* exit, /proc can fail to be read, and the loop ticks whenever a tick is  *)
(* due.  The USS of a process is the number of processes that have held    *)
(* its PID.  The processes change in the first seconds of the run, and the *)
(* sampler then goes on ticking over what is left.                         *)
(***************************************************************************)
RECURSIVE Total(_, _)
Total(count, pids) ==
    IF pids = {} THEN 0
    ELSE LET p == CHOOSE q \in pids : TRUE
         IN count[p] + Total(count, pids \ {p})

\* how many processes have been started, how many ticks of CPU time the
\* running ones have used
Started == Total(incarnation, Pids)

Worked == Total([p \in Pids |-> IF os[p].some THEN os[p].val.total_time ELSE 0],
                Pids)

StartProcess ==
    \E pid \in Pids :
        /\ now <= MaxEventTime
        /\ ~os[pid].some
        /\ Started < MaxStarts
        /\ incarnation' = [incarnation EXCEPT ![pid] = @ + 1]
        /\ os' = [os EXCEPT ![pid] =
                     Some([Reading(<<"a">>) EXCEPT !.uss = incarnation[pid] + 1])]
        /\ call' = [op |-> "start_process"]
        /\ UNCHANGED <<now, proc_readable, dir_readable, clock_skew, sysfs, appVars,
                       samplerVars, rmVars, files, histVars>>

\* a process runs: its cumulative counters grow
Work ==
    \E pid \in Pids :
        /\ now <= MaxEventTime
        /\ os[pid].some
        /\ Worked < MaxWork
        /\ os' = [os EXCEPT ![pid] =
                     Some([@.val EXCEPT !.total_time = @ + 1,
                                        !.read_bytes = @ + 1,
                                        !.write_bytes = @ + 2])]
        /\ call' = [op |-> "work"]
        /\ UNCHANGED <<now, envVars, appVars, samplerVars, rmVars, files,
                       histVars>>

\* fs::read_dir("/proc") starts failing, in the first seconds of the run, or
\* stops failing
SetProcReadable ==
    /\ proc_readable => now <= MaxEventTime
    /\ proc_readable' = ~proc_readable
    /\ call' = [op |-> "proc"]
    /\ UNCHANGED <<now, os, dir_readable, clock_skew, incarnation, sysfs, appVars,
                   samplerVars, rmVars, files, histVars>>

SamplerExit ==
    /\ now <= MaxEventTime
    /\ Exit

SamplerElapse ==
    /\ now - last_tick < TICK_RATE_MS
    /\ Elapse(Step, MaxTimeSampler)

InitSampler ==
    /\ InitApp
    /\ max_snapshots = 0
    /\ files = EmptyMap

NextSampler ==
    \/ StartProcess
    \/ SamplerExit
    \/ Work
    \/ SetProcReadable
    \/ Tick
    \/ SamplerElapse

SpecSampler == InitSampler /\ [][NextSampler]_vars

(***************************************************************************)
(* compute_cpu_percent on its own: any sequence of readings of the PIDs,   *)
(* at the same instant or later, under any ticks_per_second the reading of *)
(* /proc/stat and /proc/uptime can give: none, 0 for a cpu line of zeros,  *)
(* or the 100 jiffies per second and CPU of a Linux kernel.                *)
(***************************************************************************)
TicksPerSecondReadings == {None, Some(0), Some(100)}

CallComputeCpuPercent ==
    \E pid \in Pids, total_time \in 0..MaxTicks,
       ticks_per_second \in TicksPerSecondReadings :
        LET r == compute_cpu_percent(pid, total_time, now, ticks_per_second,
                                     cpu_samples)
        IN /\ cpu_samples' = r.samples
           /\ call' = [op |-> "compute_cpu_percent", pid |-> pid,
                       total_time |-> total_time,
                       ticks_per_second |-> ticks_per_second,
                       previous |-> Lookup(cpu_samples, pid),
                       cpu_percent |-> r.cpu_percent]
           /\ UNCHANGED <<now, os, envVars, appVars, growth_windows,
                          disk_samples, observed, rmVars, files, histVars>>

InitCpu ==
    /\ InitApp
    /\ max_snapshots = MaxCap
    /\ files = EmptyMap

NextCpu == CallComputeCpuPercent \/ Elapse(Step, MaxTimeRM)

SpecCpu == InitCpu /\ [][NextCpu]_vars

(***************************************************************************)
(* compute_growth_rate on its own: the window of PID 1 takes one sample    *)
(* after another, at the same instant or later, of any resident size, and  *)
(* the rate is computed after each as App::tick does.                      *)
(***************************************************************************)
CallComputeGrowthRate ==
    \E uss \in 0..MaxUss :
        LET before == IF 1 \in DOMAIN growth_windows
                      THEN growth_windows[1] ELSE <<>>
            window == PopFrontWhileOver(Append(before, <<now, uss>>),
                                        GROWTH_WINDOW)
        IN /\ Len(before) < MaxSamples
           /\ growth_windows' = Insert(growth_windows, 1, window)
           /\ call' = [op |-> "compute_growth_rate", samples |-> window,
                       growth_rate |-> compute_growth_rate(window)]
           /\ UNCHANGED <<now, os, envVars, appVars, cpu_samples,
                          disk_samples, observed, rmVars, files, histVars>>

NextGrowth == CallComputeGrowthRate \/ Elapse(Step, MaxTimeRM)

SpecGrowth == InitCpu /\ [][NextGrowth]_vars

(***************************************************************************)
(* Claims about the recording manager, under SpecRM.                       *)
(***************************************************************************)

\* C1: after any sequence of add_snapshot calls the ring buffer is no longer
\* than its capacity and holds exactly the most recent min(n, capacity)
\* snapshots given to it, in insertion order.
C1_RingBufferKeepsMostRecent ==
    /\ Len(buffer) <= max_snapshots
    /\ Len(buffer) = Min(Len(pushed), max_snapshots)
    /\ buffer = Suffix(pushed, max_snapshots)

\* an eviction happened from a full buffer of capacity >= 2 whose oldest and
\* newest snapshots differ
C1_Witness ==
    /\ call.op = "add_snapshot"
    /\ max_snapshots >= 2
    /\ Len(pushed) > max_snapshots
    /\ buffer[1] # buffer[Len(buffer)]
    /\ pushed[1] # buffer[1]

\* C2: a save_recording call for a PID, with a non-empty buffer, less than 2
\* seconds after a call for the same PID returned a count, returns None and
\* writes no file.
C2_SecondSaveWithinTwoSecondsSuppressed ==
    ( /\ call.op = "save_recording"
      /\ ~call.buffer_was_empty
      /\ call.since_success.some
      /\ call.since_success.val < 2000 )
    => (call.ret = None /\ ~call.files_changed)

\* a second call one second after a successful one, whose writes would succeed
C2_Witness ==
    /\ call.op = "save_recording"
    /\ ~call.buffer_was_empty
    /\ call.since_success = Some(1000)
    /\ call.io = "ok"
    /\ call.ret = None
    /\ files # EmptyMap

\* C3: save_recording on an empty ring buffer returns None, creates no file
\* and leaves the debounce map unchanged.
C3_SaveOnEmptyBufferIsNoOp ==
    (call.op = "save_recording" /\ call.buffer_was_empty)
    => (call.ret = None /\ ~call.files_changed /\ ~call.saved_changed)

\* a call on an empty buffer whose writes would succeed
C3_Witness ==
    /\ call.op = "save_recording"
    /\ call.buffer_was_empty
    /\ call.io = "ok"
    /\ max_snapshots > 0

(***************************************************************************)
(* The application as its user drives it through the recordings of earlier *)
(* runs: the list, the replay with its keys and autonomous advance, and    *)
(* the ticks that go on meanwhile.                                         *)
(***************************************************************************)
\* the batches of an earlier run, one a second
RECURSIVE OldBuffer(_)
OldBuffer(n) ==
    IF n = 0 THEN <<>>
    ELSE Append(OldBuffer(n - 1), [timestamp |-> n - 1, processes |-> <<>>])

LongRecording == BuildRecording(OldBuffer(MaxCap + 1), 1, <<"a">>, MaxCap)

\* a well-formed file that holds no snapshot
NoSnapshotsRecording ==
    [metadata |-> [id |-> RecordingId(0, 2), start_time |-> 0, end_time |-> 0,
                   trigger_pid |-> 2, trigger_name |-> <<"b">>,
                   snapshot_count |-> 0,
                   file_path |-> FilePath(RecordingId(0, 2))],
     snapshots |-> <<>>]

\* a file whose write stopped after the header
TruncatedId == RecordingId(0, 1)

UIDir ==
    WriteFile(
        WriteFile(
            WriteFile(EmptyMap, LongRecording.metadata.id,
                      EncodedFile(LongRecording)),
            NoSnapshotsRecording.metadata.id, EncodedFile(NoSnapshotsRecording)),
        TruncatedId, HeaderOnlyFile)

InitUI ==
    /\ now = 0
    /\ os = [p \in Pids |-> IF p = 1 THEN Some(Reading(<<"a">>)) ELSE None]
    /\ processes = <<>>
    /\ watched_pids = {}
    /\ view_state = [sort_column |-> "Uss", sort_ascending |-> FALSE,
                     filter |-> <<>>, selected |-> 0, filter_active |-> FALSE]
    /\ status_message = None
    /\ confirm_kill = None
    /\ mode = LiveMode
    /\ running = TRUE
    /\ growth_windows = EmptyMap
    /\ cpu_samples = EmptyMap
    /\ disk_samples = EmptyMap
    /\ proc_readable = TRUE
    /\ dir_readable = TRUE
    /\ clock_skew = 0
    /\ sysfs = EmptyMap
    /\ incarnation = [p \in Pids |-> 0]
    /\ observed = EmptyMap
    /\ buffer = <<>>
    /\ last_saved_pids = EmptyMap
    /\ last_tick = 0
    /\ killed = {}
    /\ pushed = <<>>
    /\ last_success = EmptyMap
    /\ call = [op |-> "new"]
    /\ max_snapshots = MaxCap
    /\ files = UIDir

NextUI ==
    \/ Tick
    \/ LoopElapse
    \/ LiveKeyR
    \/ LiveKeyQuit
    \/ LiveKeySlash
    \/ FilterKeyChar
    \/ FilterKeyBackspace
    \/ FilterKeyEsc
    \/ FilterKeyEnter
    \/ LiveKeyUp
    \/ LiveKeyDown
    \/ LiveKeyK
    \/ ConfirmKeyNo
    \/ ConfirmKeyYes
    \/ ListKeyUp
    \/ ListKeyDown
    \/ ListKeyEnter
    \/ ListKeyDelete
    \/ ListKeyEsc
    \/ ReplayKeyExit
    \/ ReplayKeyLeft
    \/ ReplayKeyRight
    \/ ReplayKeyPageUp
    \/ ReplayKeyPageDown
    \/ ReplayKeyHome
    \/ ReplayKeyEnd
    \/ ReplayKeySpace
    \/ ReplayKeyPlus
    \/ ReplayKeyMinus
    \/ ReplayAdvance

SpecUI == InitUI /\ [][NextUI]_vars

(***************************************************************************)
(* The list of recordings on its own: opened from the live view, walked,   *)
(* deleted from and left, over a directory that can become unreadable.     *)
(***************************************************************************)
NextList ==
    \/ LiveKeyR
    \/ ListKeyUp
    \/ ListKeyDown
    \/ ListKeyDelete
    \/ ListKeyEsc
    \/ SetDirReadable
    \/ Elapse(Step, MaxTimeRM)

SpecList == InitUI /\ [][NextList]_vars

(***************************************************************************)
(* Processes and keys that act in the first seconds of a run, and the      *)
(* passage of time over a longer one.                                      *)
(***************************************************************************)
WatchElapse ==
    /\ now - last_tick < TICK_RATE_MS
    /\ Elapse(Step, MaxTimeWatch)

WatchSpawn == now <= MaxEventTime /\ Spawn({<<"a">>})

WatchToggle == now <= MaxEventTime /\ ToggleWatch

WatchKeySlash == now <= MaxEventTime /\ LiveKeySlash

WatchKeyChar == now <= MaxEventTime /\ FilterKeyChar

WatchKeyEsc == now <= MaxEventTime /\ FilterKeyEsc

WatchKeyR == now <= MaxEventTime /\ LiveKeyR

WatchListEsc == now <= MaxEventTime /\ ListKeyEsc

(***************************************************************************)
(* The keys of the live view and of the kill confirmation, over processes  *)
(* that start while the loop ticks.                                        *)
(***************************************************************************)
NextKeys ==
    \/ Tick
    \/ LoopElapse
    \/ WatchSpawn
    \/ LiveKeyUp
    \/ LiveKeyDown
    \/ LiveKeyW
    \/ LiveKeyK
    \/ LiveKeySlash
    \/ FilterKeyChar
    \/ FilterKeyEsc
    \/ LiveKeyR
    \/ ListKeyEsc
    \/ ConfirmKeyYes
    \/ ConfirmKeyNo
    \/ ConfirmKeyOther

SpecKeys == InitUI /\ [][NextKeys]_vars

(***************************************************************************)
(* Watched processes over several ticks: processes start and exit, the     *)
(* watch set is toggled through App::toggle_watch, the filter is edited    *)
(* and the recordings list is opened and left.  Processes and keys act in  *)
(* the first seconds of the run, and the loop then goes on ticking.        *)
(***************************************************************************)
InitWatch ==
    /\ InitApp
    /\ max_snapshots = MaxCap
    /\ files = EmptyMap

NextWatch ==
    \/ WatchSpawn
    \/ SamplerExit
    \/ Tick
    \/ WatchToggle
    \/ WatchElapse
    \/ WatchKeySlash
    \/ WatchKeyChar
    \/ WatchKeyEsc
    \/ WatchKeyR
    \/ WatchListEsc

SpecWatch == InitWatch /\ [][NextWatch]_vars

\* the test of run_app on last_tick.elapsed()
TickDue == running /\ now - last_tick >= TICK_RATE_MS

\* the step that resets last_tick: App::tick has run
TickTaken == TickDue /\ last_tick' = now

\* the loop of run_app keeps polling and runs every tick that is due: time
\* passes, and a due tick is taken before the next poll
SpecWatchFair ==
    /\ SpecWatch
    /\ WF_vars(WatchElapse)
    /\ WF_last_tick(TickTaken)

(***************************************************************************)
(* The replay of one recording: the user opens the list, loads the         *)
(* recording and drives the replay with its keys while time passes on the  *)
(* grid of the half-second.  The loop checks the autonomous advance in     *)
(* every iteration, so a due advance happens before more time passes.      *)
(***************************************************************************)
ReplayStep == interval_ms("Double")

ReplayLens == {1, MaxCap + 1, PAGE + 2}

RecordingOfLen(n) == BuildRecording(OldBuffer(n), 1, <<"a">>, n)

DirOfLen(n) ==
    WriteFile(EmptyMap, RecordingOfLen(n).metadata.id,
              EncodedFile(RecordingOfLen(n)))

InitReplay ==
    /\ InitApp
    /\ max_snapshots = MaxCap
    /\ files \in {DirOfLen(n) : n \in ReplayLens}

ReplayElapse ==
    /\ ~(mode.tag = "Replay" /\ mode.playing /\ AdvanceDue(mode, now))
    /\ Elapse(ReplayStep, MaxTimeReplay)

NextReplay ==
    \/ LiveKeyR
    \/ ListKeyEnter
    \/ ReplayKeyExit
    \/ ReplayKeyLeft
    \/ ReplayKeyRight
    \/ ReplayKeyPageUp
    \/ ReplayKeyPageDown
    \/ ReplayKeyHome
    \/ ReplayKeyEnd
    \/ ReplayKeySpace
    \/ ReplayKeyPlus
    \/ ReplayKeyMinus
    \/ ReplayAdvance
    \/ ReplayElapse

SpecReplay == InitReplay /\ [][NextReplay]_vars

(***************************************************************************)
(* A replay left to itself: the recording has been loaded and set playing  *)
(* from its first snapshot at some speed, and from then on only time       *)
(* passes and the loop checks the autonomous advance.                      *)
(***************************************************************************)
InitPlay ==
    /\ now = 0
    /\ os = [p \in Pids |-> None]
    /\ processes = <<>>
    /\ watched_pids = {}
    /\ view_state = [sort_column |-> "Uss", sort_ascending |-> FALSE,
                     filter |-> <<>>, selected |-> 0, filter_active |-> FALSE]
    /\ status_message = None
    /\ confirm_kill = None
    /\ running = TRUE
    /\ growth_windows = EmptyMap
    /\ cpu_samples = EmptyMap
    /\ disk_samples = EmptyMap
    /\ proc_readable = TRUE
    /\ dir_readable = TRUE
    /\ clock_skew = 0
    /\ sysfs = EmptyMap
    /\ incarnation = [p \in Pids |-> 0]
    /\ observed = EmptyMap
    /\ buffer = <<>>
    /\ last_saved_pids = EmptyMap
    /\ last_tick = 0
    /\ killed = {}
    /\ pushed = <<>>
    /\ last_success = EmptyMap
    /\ max_snapshots = MaxCap
    /\ call = [op |-> "replay_space"]
    /\ \E n \in ReplayLens, speed \in {"Half", "Normal", "Double", "Fast", "VeryFast"} :
          /\ files = DirOfLen(n)
          /\ mode = Replay(RecordingOfLen(n), 0, speed, TRUE, 0)

NextPlay ==
    \/ ReplayAdvance
    \/ ReplayElapse

SpecPlay == InitPlay /\ [][NextPlay]_vars

(***************************************************************************)
(* Claims about App::tick, checked under SpecTick.                         *)
(***************************************************************************)

\* C4: in a Live tick, every watched PID that is in the previous list and
\* absent from the new one gets exactly one save_recording call and is out of
\* the watch set when the tick ends, whatever the save returned; no other PID
\* gets a save attempt.
C4_VanishedWatchedSavedOnceAndUnwatched ==
    (call.op = "tick" /\ call.mode = "Live") =>
        /\ \A pid \in call.vanished_watched :
              /\ Cardinality({i \in 1..Len(call.saves) :
                                 call.saves[i].pid = pid}) = 1
              /\ pid \notin watched_pids
        /\ \A i \in 1..Len(call.saves) :
              call.saves[i].pid \in call.vanished_watched

\* a Live tick with two vanished watched PIDs, one save written and one failed
C4_Witness ==
    /\ call.op = "tick"
    /\ call.mode = "Live"
    /\ Cardinality(call.vanished_watched) = 2
    /\ \E i, j \in 1..Len(call.saves) :
          /\ call.saves[i].ret.some
          /\ ~call.saves[j].ret.some
    /\ watched_pids = {}

\* C5 as stated: the buffer that the saves of a Live tick copy already
\* contains the batch of that tick.
C5_SaveSeesBatchOfItsTick ==
    (call.op = "tick" /\ call.mode = "Live") =>
        \A i \in 1..Len(call.saves) : call.saves[i].saw_batch

\* C5 amended: in a Live tick the batch is built, then the watch set is
\* checked and save_recording invoked, then the batch is added; no save of
\* the tick copies a buffer that holds the batch of the tick, and the batch is
\* the newest element of the buffer when the tick ends.
C5_SaveRunsBeforeBatchIsAdded ==
    (call.op = "tick" /\ call.mode = "Live") =>
        /\ \A i \in 1..Len(call.saves) : ~call.saves[i].saw_batch
        /\ buffer # <<>>
        /\ buffer[Len(buffer)] =
               [timestamp |-> now \div 1000, processes |-> processes]

\* a Live tick whose save wrote a recording of the earlier batches
C5_Witness ==
    /\ call.op = "tick"
    /\ call.mode = "Live"
    /\ \E i \in 1..Len(call.saves) :
          /\ call.saves[i].ret = Some(1)
          /\ ~call.saves[i].saw_batch
    /\ Len(buffer) = 2

\* C6: a tick in Browsing or Replaying mode leaves the ring buffer, the
\* debounce map, the watch set and the stored recordings unchanged.
C6_NonLiveTickLeavesRecordingStateAlone ==
    (call.op = "tick" /\ call.mode # "Live") =>
        /\ call.recording_untouched
        /\ call.saves = <<>>

\* a tick in Browsing mode over a watched PID that has vanished
C6_Witness ==
    /\ call.op = "tick"
    /\ call.mode = "RecordingList"
    /\ call.vanished_watched # {}
    /\ buffer # <<>>

\* C7 as stated: a tick in Browsing or Replaying mode does not sample, so the
\* process list, the counter stores and the growth windows are unchanged.
C7_NonLiveTickDoesNotSample ==
    (call.op = "tick" /\ call.mode # "Live") => call.sampler_untouched

(***************************************************************************)
(* Claims about the modes and the replay, checked under SpecUI.            *)
(***************************************************************************)

\* C8: the mode is always one of Live, RecordingList (browsing) and Replay;
\* a step changes it only from Live to the list on 'R', from the list to
\* Replay on Enter, from the list to Live on Esc, from Replay to Live on
\* exit, and from the list to a refreshed list on 'd'.
C8_OnlyListedModeChanges ==
    /\ [](mode.tag \in {"Live", "RecordingList", "Replay"})
    /\ [][\/ /\ mode'.tag = mode.tag
             /\ (mode.tag = "RecordingList"
                 /\ mode'.recordings # mode.recordings)
                    => call'.op = "list_delete"
             /\ mode.tag = "Replay" => mode'.recording = mode.recording
          \/ /\ mode.tag = "Live" /\ mode'.tag = "RecordingList"
             /\ call'.op = "live_R"
          \/ /\ mode.tag = "RecordingList" /\ mode'.tag = "Replay"
             /\ call'.op = "list_enter"
          \/ /\ mode.tag = "RecordingList" /\ mode'.tag = "Live"
             /\ call'.op = "list_esc"
          \/ /\ mode.tag = "Replay" /\ mode'.tag = "Live"
             /\ call'.op = "replay_exit"]_vars

\* back in Live mode from a replay, with ticks recorded on the way
C8_Witness ==
    /\ call.op = "replay_exit"
    /\ mode.tag = "Live"
    /\ buffer # <<>>
    /\ Cardinality(DOMAIN files) < Cardinality(DOMAIN UIDir)

\* C9: Enter on a list entry makes the mode Replay exactly when the load
\* succeeded with at least one snapshot; a load that failed or returned no
\* snapshot sets a status message and leaves list and selection as they
\* were; so the recording of a Replay mode is never empty.
C9_ReplayOnlyOfNonEmptyLoad ==
    /\ mode.tag = "Replay" => mode.recording.snapshots # <<>>
    /\ (call.op = "list_enter" /\ call.loaded.some) =>
          LET loaded == call.loaded.val
          IN IF loaded.ok /\ loaded.val.snapshots # <<>>
             THEN /\ mode.tag = "Replay"
                  /\ mode.recording = loaded.val
             ELSE /\ mode = call.mode_before
                  /\ status_message.some
                  /\ status_message.val.text =
                        IF loaded.ok THEN "Recording has no snapshots"
                        ELSE "Failed to load recording: " \o loaded.error
                  /\ status_message.val.expires_at = now + STATUS_MS

\* Enter on the recording without snapshots: the list stays, a message shows
C9_Witness ==
    /\ call.op = "list_enter"
    /\ call.loaded.some
    /\ call.loaded.val.ok
    /\ call.loaded.val.val.snapshots = <<>>
    /\ mode.tag = "RecordingList"
    /\ mode.selected > 0
    /\ status_message.some

\* C10: in Replay mode the current index is from 0 to the number of
\* snapshots less one, whatever keys and advances led there.
C10_ReplayIndexInRange ==
    mode.tag = "Replay" =>
        /\ mode.current_index >= 0
        /\ mode.current_index <= Len(mode.recording.snapshots) - 1

\* the autonomous advance has arrived at the last snapshot of a recording
C10_Witness ==
    /\ call.op = "replay_advance"
    /\ mode.tag = "Replay"
    /\ Len(mode.recording.snapshots) > 2
    /\ mode.current_index = Len(mode.recording.snapshots) - 1

(***************************************************************************)
(* Claims about the replay engine, checked under SpecReplay.               *)
(***************************************************************************)

\* C11: the passage of time alone never changes the replay state; the index
\* changes without a key only by the autonomous advance, which happens only
\* while playing and once the time since the anchor has reached the interval
\* of the speed; it then adds 1 and sets the anchor to the present, except at
\* the last index, where it pauses and leaves the index.
C11_AdvanceOnlyWhenDue ==
    [][/\ call'.op = "elapse" => mode' = mode
       /\ (/\ mode.tag = "Replay" /\ mode'.tag = "Replay"
           /\ mode'.current_index # mode.current_index
           /\ call'.op \notin {"replay_left", "replay_right", "replay_page_up",
                               "replay_page_down", "replay_home", "replay_end"})
              => call'.op = "replay_advance"
       /\ call'.op = "replay_advance" =>
             /\ mode.playing
             /\ now - mode.last_advance_time >= interval_ms(mode.speed)
             /\ mode'.speed = mode.speed
             /\ mode'.recording = mode.recording
             /\ IF mode.current_index < Len(mode.recording.snapshots) - 1
                THEN /\ mode'.current_index = mode.current_index + 1
                     /\ mode'.last_advance_time = now
                     /\ mode'.playing
                ELSE /\ mode'.current_index = mode.current_index
                     /\ ~mode'.playing]_vars

\* the advance at half speed has found the last index and paused the replay
C11_Witness ==
    /\ call.op = "replay_advance"
    /\ mode.tag = "Replay"
    /\ ~mode.playing
    /\ mode.speed = "Half"
    /\ Len(mode.recording.snapshots) > 1
    /\ mode.current_index = Len(mode.recording.snapshots) - 1

\* C12 as stated: a replay of n snapshots left playing from index 0 is at
\* index n-1 and paused once the interval of its speed has elapsed n-1
\* times and the loop has made its check.
C12_PausedAfterLastStep ==
    (/\ mode.tag = "Replay"
     /\ now >= (Len(mode.recording.snapshots) - 1) * interval_ms(mode.speed)
     /\ ~(mode.playing /\ AdvanceDue(mode, now)))
        => /\ mode.current_index = Len(mode.recording.snapshots) - 1
           /\ ~mode.playing

\* C13: the play/pause key flips the playing flag, sets the advance anchor
\* to the instant of the key and leaves index and speed; the anchor of a
\* replay never moves back and an advance waits for a full interval since
\* the anchor, so no advance comes sooner than one interval after a resume.
C13_ToggleResetsAnchor ==
    [][/\ call'.op = "replay_space" =>
             /\ mode'.playing = ~mode.playing
             /\ mode'.last_advance_time = now'
             /\ mode'.current_index = mode.current_index
             /\ mode'.speed = mode.speed
             /\ mode'.recording = mode.recording
       /\ (mode.tag = "Replay" /\ mode'.tag = "Replay") =>
             /\ mode'.last_advance_time >= mode.last_advance_time
             /\ mode'.last_advance_time <= now'
       /\ (call'.op = "replay_advance"
           /\ mode'.current_index # mode.current_index) =>
             now - mode.last_advance_time >= interval_ms(mode.speed)]_vars

\* a replay resumed after a pause of more than its interval
C13_Witness ==
    /\ call.op = "replay_space"
    /\ mode.tag = "Replay"
    /\ mode.playing
    /\ mode.speed = "Normal"
    /\ mode.current_index = 1
    /\ mode.last_advance_time = now
    /\ now >= 3000

\* C14: a navigation key of the replay sets the index to its target clamped
\* to 0 .. len-1 (Left and Right one back and forth, PageUp and PageDown ten,
\* Home the first, End the last), sets the advance anchor to the present and
\* leaves the playing flag, the speed and the recording.
C14_NavigationKeysClampAndResetAnchor ==
    [][LET last == Len(mode.recording.snapshots) - 1
           index == mode.current_index
           target == CASE call'.op = "replay_left" -> index - 1
                       [] call'.op = "replay_right" -> index + 1
                       [] call'.op = "replay_page_up" -> index - 10
                       [] call'.op = "replay_page_down" -> index + 10
                       [] call'.op = "replay_home" -> 0
                       [] call'.op = "replay_end" -> last
       IN call'.op \in {"replay_left", "replay_right", "replay_page_up",
                        "replay_page_down", "replay_home", "replay_end"} =>
             /\ mode'.current_index =
                   IF target < 0 THEN 0
                   ELSE IF target > last THEN last ELSE target
             /\ mode'.last_advance_time = now'
             /\ mode'.playing = mode.playing
             /\ mode'.speed = mode.speed
             /\ mode'.recording = mode.recording]_vars

\* a page back from the last snapshot of a long recording that is playing
C14_Witness ==
    /\ call.op = "replay_page_up"
    /\ mode.tag = "Replay"
    /\ mode.playing
    /\ Len(mode.recording.snapshots) > 11
    /\ mode.current_index = Len(mode.recording.snapshots) - 11
    /\ mode.current_index > 0
    /\ mode.last_advance_time = now
    /\ now > 0

\* C15: the speed keys move one step along Half, Normal, Double, Fast,
\* VeryFast and stay at the end they have reached, without wrapping; they
\* leave the index and the playing flag.
C15_SpeedKeysStepAlongLadder ==
    [][LET ladder == <<"Half", "Normal", "Double", "Fast", "VeryFast">>
           at == CHOOSE i \in 1..5 : ladder[i] = mode.speed
       IN /\ call'.op = "replay_plus" =>
                /\ mode'.speed = ladder[IF at = 5 THEN 5 ELSE at + 1]
                /\ mode'.current_index = mode.current_index
                /\ mode'.playing = mode.playing
          /\ call'.op = "replay_minus" =>
                /\ mode'.speed = ladder[IF at = 1 THEN 1 ELSE at - 1]
                /\ mode'.current_index = mode.current_index
                /\ mode'.playing = mode.playing]_vars

\* one step down from the fastest speed, in a replay that is playing
C15_Witness ==
    /\ call.op = "replay_minus"
    /\ mode.tag = "Replay"
    /\ mode.speed = "Fast"
    /\ mode.playing
    /\ mode.current_index > 0

\* C16: no step taken in Replay mode, be it a key, the autonomous advance or
\* a tick, changes the stored recordings or the ring buffer, and the exit
\* key leaves the mode Live with nothing of the replay kept.
C16_ReplayLeavesRecordingsAlone ==
    [][mode.tag = "Replay" =>
          /\ files' = files
          /\ buffer' = buffer
          /\ call'.op = "replay_exit" => mode' = [tag |-> "Live"]]_vars

\* a tick during a replay that has moved on, with batches in the buffer
C16_Witness ==
    /\ call.op = "tick"
    /\ mode.tag = "Replay"
    /\ mode.current_index > 0
    /\ buffer # <<>>
    /\ files = UIDir


(***************************************************************************)
(* cgroup.rs: the control-group files.  A file is its text, a sequence of  *)
(* characters, and whether fs::read_to_string succeeds on it; a path that  *)
(* is not in the map does not exist.  A u64 is four limbs of 16 bits, the  *)
(* most significant first, so that 2^62 and 2^64 keep their places.        *)
(***************************************************************************)
Limb == 2 ^ 16

U64(n) == <<0, 0, n \div Limb, n % Limb>>

U64Less(a, b) ==
    \E i \in 1..4 : a[i] < b[i] /\ \A j \in 1..(i - 1) : a[j] = b[j]

\* 1u64 << 62
SENTINEL == <<Limb \div 4, 0, 0, 0>>

WhiteSpace == {" ", "\n", "\t"}

RECURSIVE TrimWsStart(_)
TrimWsStart(str) ==
    IF str # <<>> /\ Head(str) \in WhiteSpace THEN TrimWsStart(Tail(str)) ELSE str

RECURSIVE TrimWsEnd(_)
TrimWsEnd(str) ==
    IF str # <<>> /\ str[Len(str)] \in WhiteSpace
    THEN TrimWsEnd(SubSeq(str, 1, Len(str) - 1)) ELSE str

\* str::trim
TrimWs(str) == TrimWsEnd(TrimWsStart(str))

\* str::split_whitespace: the maximal runs of characters that are not spaces
RECURSIVE split_whitespace(_, _)
split_whitespace(str, word) ==
    IF str = <<>> THEN (IF word = <<>> THEN <<>> ELSE <<word>>)
    ELSE IF Head(str) \in WhiteSpace
    THEN (IF word = <<>> THEN <<>> ELSE <<word>>)
             \o split_whitespace(Tail(str), <<>>)
    ELSE split_whitespace(Tail(str), Append(word, Head(str)))

DigitValue(c) ==
    CASE c = "0" -> 0 [] c = "1" -> 1 [] c = "2" -> 2 [] c = "3" -> 3
      [] c = "4" -> 4 [] c = "5" -> 5 [] c = "6" -> 6 [] c = "7" -> 7
      [] c = "8" -> 8 [] c = "9" -> 9 [] OTHER -> -1

\* value * 10 + digit, and whether it has left the 64 bits
MulAdd10(v, d) ==
    LET l0 == v[4] * 10 + d
        l1 == v[3] * 10 + l0 \div Limb
        l2 == v[2] * 10 + l1 \div Limb
        l3 == v[1] * 10 + l2 \div Limb
    IN [overflow |-> l3 \div Limb > 0,
        value |-> <<l3 % Limb, l2 % Limb, l1 % Limb, l0 % Limb>>]

RECURSIVE ParseDigits(_, _)
ParseDigits(str, acc) ==
    IF str = <<>> THEN Some(acc)
    ELSE IF DigitValue(Head(str)) < 0 THEN None
    ELSE LET m == MulAdd10(acc, DigitValue(Head(str)))
         IN IF m.overflow THEN None ELSE ParseDigits(Tail(str), m.value)

\* str::parse::<u64>: decimal digits after an optional plus sign
parse_u64(str) ==
    LET digits == IF str # <<>> /\ Head(str) = "+" THEN Tail(str) ELSE str
    IN IF digits = <<>> THEN None ELSE ParseDigits(digits, U64(0))

\* str::parse::<i64>: a sign and a magnitude of at most 2^63 - 1, or 2^63
\* when negative
parse_i64(str) ==
    LET signed == str # <<>> /\ Head(str) \in {"+", "-"}
        neg == str # <<>> /\ Head(str) = "-"
        digits == IF signed THEN Tail(str) ELSE str
        mag == IF digits = <<>> THEN None ELSE ParseDigits(digits, U64(0))
        MIN == <<Limb \div 2, 0, 0, 0>>
    IN IF ~mag.some THEN None
       ELSE IF U64Less(MIN, mag.val) \/ (~neg /\ mag.val = MIN) THEN None
       ELSE Some([neg |-> neg /\ mag.val # U64(0), mag |-> mag.val])

\* str::parse::<f64> on the texts without a fraction or an exponent: a sign,
\* then digits, or one of the names of the infinity and of the NaN in lower
\* case (the parse ignores their case)
parse_f64(str) ==
    LET signed == str # <<>> /\ Head(str) \in {"+", "-"}
        neg == str # <<>> /\ Head(str) = "-"
        body == IF signed THEN Tail(str) ELSE str
        mag == IF body = <<>> THEN None ELSE ParseDigits(body, U64(0))
    IN IF body \in {<<"i", "n", "f">>,
                    <<"i", "n", "f", "i", "n", "i", "t", "y">>}
       THEN Some([kind |-> "inf", neg |-> neg])
       ELSE IF body = <<"n", "a", "n">> THEN Some([kind |-> "NaN"])
       ELSE IF mag.some
       THEN Some([kind |-> "finite", neg |-> neg, mag |-> mag.val])
       ELSE None

\* quota / period in f64, for a period that is not <= 0.0
F64Quotient(quota, period) ==
    IF quota.kind = "NaN" \/ period.kind = "NaN" THEN [kind |-> "NaN"]
    ELSE IF quota.kind = "inf"
    THEN (IF period.kind = "inf" THEN [kind |-> "NaN"]
          ELSE [kind |-> "inf", neg |-> quota.neg])
    ELSE IF period.kind = "inf"
    THEN [kind |-> "finite", neg |-> quota.neg, num |-> U64(0), den |-> U64(1)]
    ELSE [kind |-> "finite", neg |-> quota.neg /\ quota.mag # U64(0),
          num |-> quota.mag, den |-> period.mag]

\* Path::exists, and read_string: fs::read_to_string(path).ok()
Exists(fs, path) == path \in DOMAIN fs

fs_read_string(fs, path) ==
    IF Exists(fs, path) /\ fs[path].readable THEN Some(fs[path].text) ELSE None

read_u64(fs, path) ==
    LET content == fs_read_string(fs, path)
    IN IF content.some THEN parse_u64(TrimWs(content.val)) ELSE None

read_i64(fs, path) ==
    LET content == fs_read_string(fs, path)
    IN IF content.some THEN parse_i64(TrimWs(content.val)) ELSE None

unwrap_or(option, default) == IF option.some THEN option.val ELSE default

read_cgroup_v2(fs) ==
    LET value == fs_read_string(fs, "/sys/fs/cgroup/memory.max")
    IN [usage |-> unwrap_or(read_u64(fs, "/sys/fs/cgroup/memory.current"), U64(0)),
        limit |-> IF ~value.some THEN None
                  ELSE IF TrimWs(value.val) = <<"m", "a", "x">> THEN None
                  ELSE parse_u64(TrimWs(value.val))]

read_cgroup_v1(fs) ==
    LET value == read_u64(fs, "/sys/fs/cgroup/memory/memory.limit_in_bytes")
    IN [usage |-> unwrap_or(
                      read_u64(fs, "/sys/fs/cgroup/memory/memory.usage_in_bytes"),
                      U64(0)),
        limit |-> IF ~value.some THEN None
                  ELSE IF U64Less(SENTINEL, value.val) THEN None
                  ELSE value]

\* HYPERPLANE_SESSION_PROCESS_TERMINATOR_THRESHOLD_PERCENT as a u8, or 80
read_threshold_percent(value) ==
    LET parsed == IF value.some THEN parse_u64(value.val) ELSE None
    IN IF parsed.some /\ U64Less(parsed.val, U64(256))
       THEN parsed.val[4] ELSE DEFAULT_THRESHOLD

\* mutant: the v1 files are tried first
read_pod_memoryV1First(fs, threshold_env) ==
    LET m == IF Exists(fs, "/sys/fs/cgroup/memory/memory.limit_in_bytes")
             THEN read_cgroup_v1(fs)
             ELSE IF Exists(fs, "/sys/fs/cgroup/memory.max")
             THEN read_cgroup_v2(fs)
             ELSE [usage |-> U64(0), limit |-> None]
    IN [cgroup_usage |-> m.usage, cgroup_limit |-> m.limit, rss_sum |-> 0,
        terminator_threshold_percent |-> read_threshold_percent(threshold_env)]

read_pod_memory(fs, threshold_env) ==
    LET m == IF Exists(fs, "/sys/fs/cgroup/memory.max")
             THEN read_cgroup_v2(fs)
             ELSE IF Exists(fs, "/sys/fs/cgroup/memory/memory.limit_in_bytes")
             THEN read_cgroup_v1(fs)
             ELSE [usage |-> U64(0), limit |-> None]
    IN [cgroup_usage |-> m.usage, cgroup_limit |-> m.limit, rss_sum |-> 0,
        terminator_threshold_percent |-> read_threshold_percent(threshold_env)]

read_cpu_cgroup_v2(fs) ==
    LET content == fs_read_string(fs, "/sys/fs/cgroup/cpu.max")
        parts == IF content.some
                 THEN split_whitespace(TrimWs(content.val), <<>>) ELSE <<>>
        quota == parse_f64(parts[1])
        period == parse_f64(parts[2])
    IN IF ~content.some THEN None
       ELSE IF Len(parts) # 2 THEN None
       ELSE IF parts[1] = <<"m", "a", "x">> THEN None
       ELSE IF ~quota.some \/ ~period.some THEN None
       \* period <= 0.0, which is false of the NaN
       ELSE IF period.val.kind = "finite"
               /\ (period.val.neg \/ period.val.mag = U64(0)) THEN None
       ELSE IF period.val.kind = "inf" /\ period.val.neg THEN None
       ELSE Some(F64Quotient(quota.val, period.val))

read_cpu_cgroup_v1(fs) ==
    LET quota == read_i64(fs, "/sys/fs/cgroup/cpu/cpu.cfs_quota_us")
        period == read_i64(fs, "/sys/fs/cgroup/cpu/cpu.cfs_period_us")
    IN IF ~quota.some THEN None
       ELSE IF ~period.some THEN None
       ELSE IF quota.val.neg \/ quota.val.mag = U64(0)
               \/ period.val.neg \/ period.val.mag = U64(0) THEN None
       ELSE Some([kind |-> "finite", neg |-> FALSE,
                  num |-> quota.val.mag, den |-> period.val.mag])

\* the cores of the CpuQuota
read_cpu_quota(fs) ==
    IF Exists(fs, "/sys/fs/cgroup/cpu.max") THEN read_cpu_cgroup_v2(fs)
    ELSE IF Exists(fs, "/sys/fs/cgroup/cpu/cpu.cfs_quota_us")
    THEN read_cpu_cgroup_v1(fs)
    ELSE None

(***************************************************************************)
(* The memory files of the two layouts, each absent, unreadable or holding *)
(* one of a few texts; a file carries, next to its text, the number that   *)
(* is written in it, if one is.                                            *)
(***************************************************************************)
File(text, value) == [text |-> text, readable |-> TRUE, value |-> value]

Unreadable == [text |-> <<>>, readable |-> FALSE, value |-> None]

MemoryFiles ==
    [p \in {"/sys/fs/cgroup/memory.max", "/sys/fs/cgroup/memory.current",
            "/sys/fs/cgroup/memory/memory.limit_in_bytes",
            "/sys/fs/cgroup/memory/memory.usage_in_bytes"} |->
     CASE p = "/sys/fs/cgroup/memory.max" ->
     {File(<<"m", "a", "x", "\n">>,
          None),
     File(<<"8", "\n">>,
          Some(<<0, 0, 0, 8>>)),
     File(<<"x">>,
          None),
     Unreadable}
       [] p = "/sys/fs/cgroup/memory.current" ->
     {File(<<"3", "\n">>,
          Some(<<0, 0, 0, 3>>)),
     File(<<"x">>,
          None),
     Unreadable}
       [] p = "/sys/fs/cgroup/memory/memory.limit_in_bytes" ->
     {File(<<"8", "\n">>,
          Some(<<0, 0, 0, 8>>)),
     File(<<"4", "6", "1", "1", "6", "8", "6", "0", "1", "8", "4", "2", "7", "3", "8", "7", "9", "0", "3", "\n">>,
          Some(<<16383, 65535, 65535, 65535>>)),
     File(<<"4", "6", "1", "1", "6", "8", "6", "0", "1", "8", "4", "2", "7", "3", "8", "7", "9", "0", "4", "\n">>,
          Some(<<16384, 0, 0, 0>>)),
     File(<<"4", "6", "1", "1", "6", "8", "6", "0", "1", "8", "4", "2", "7", "3", "8", "7", "9", "0", "5", "\n">>,
          Some(<<16384, 0, 0, 1>>)),
     File(<<"9", "2", "2", "3", "3", "7", "2", "0", "3", "6", "8", "5", "4", "7", "7", "1", "7", "1", "2", "\n">>,
          Some(<<32767, 65535, 65535, 61440>>)),
     File(<<"1", "8", "4", "4", "6", "7", "4", "4", "0", "7", "3", "7", "0", "9", "5", "5", "1", "6", "1", "6">>,
          None),
     Unreadable}
       [] OTHER ->
     {File(<<"4", "\n">>,
          Some(<<0, 0, 0, 4>>)),
     File(<<"-", "1">>,
          None)}]

ThresholdTexts == {None, Some(<<"9", "0">>), Some(<<"3", "0", "0">>), Some(<<"x">>)}

\* a file of the directory is written, made unreadable or removed
SetSysfs(candidates) ==
    \E path \in DOMAIN candidates :
        /\ \/ \E file \in candidates[path] : sysfs' = Insert(sysfs, path, file)
           \/ sysfs' = [q \in DOMAIN sysfs \ {path} |-> sysfs[q]]
        /\ call' = [op |-> "sysfs"]
        /\ UNCHANGED <<now, os, proc_readable, dir_readable, clock_skew,
                       incarnation, appVars, samplerVars, rmVars, files,
                       histVars>>

SetMemoryFile == SetSysfs(MemoryFiles)

CallReadPodMemory ==
    \E threshold_env \in ThresholdTexts :
        /\ call' = [op |-> "read_pod_memory",
                    ret |-> read_pod_memory(sysfs, threshold_env)]
        /\ UNCHANGED <<now, os, envVars, appVars, samplerVars, rmVars, files,
                       histVars>>

NextMemory == SetMemoryFile \/ CallReadPodMemory

SpecMemory == InitCpu /\ [][NextMemory]_vars

(***************************************************************************)
(* The CPU files of the two layouts: cpu.max holds "<quota> <period>" or   *)
(* "max <period>", the v1 files hold one number each, -1 for no quota.     *)
(***************************************************************************)
CpuFiles ==
    [p \in {"/sys/fs/cgroup/cpu.max", "/sys/fs/cgroup/cpu/cpu.cfs_quota_us",
            "/sys/fs/cgroup/cpu/cpu.cfs_period_us"} |->
     CASE p = "/sys/fs/cgroup/cpu.max" ->
     {File(<<"m", "a", "x", " ", "1", "0", "0", "0", "0", "0", "\n">>, None),
      File(<<"5", "0", "0", "0", "0", " ", "1", "0", "0", "0", "0", "0", "\n">>, None),
      File(<<"0", " ", "1", "0", "0", "0", "0", "0", "\n">>, None),
      File(<<"-", "1", " ", "1", "0", "0", "0", "0", "0", "\n">>, None),
      File(<<"5", "0", "0", "0", "0", " ", "0", "\n">>, None),
      File(<<"5", "0", "0", "0", "0", " ", "-", "1", "0", "0", "0", "0", "0", "\n">>, None),
      File(<<"5", "0", "0", "0", "0", "\n">>, None),
      File(<<"x", " ", "1", "0", "0", "0", "0", "0", "\n">>, None),
      File(<<"5", "0", "0", "0", "0", " ", "x", "\n">>, None),
      File(<<"n", "a", "n", " ", "1", "0", "0", "0", "0", "0", "\n">>, None),
      File(<<"5", "0", "0", "0", "0", " ", "n", "a", "n", "\n">>, None),
      File(<<>>, None),
      Unreadable}
       [] p = "/sys/fs/cgroup/cpu/cpu.cfs_quota_us" ->
     {File(<<"-", "1", "\n">>, None),
      File(<<"0", "\n">>, None),
      File(<<"5", "0", "0", "0", "0", "\n">>, None),
      File(<<"x", "\n">>, None),
      Unreadable}
       [] OTHER ->
     {File(<<"1", "0", "0", "0", "0", "0", "\n">>, None),
      File(<<"0", "\n">>, None),
      File(<<"-", "1", "0", "0", "0", "0", "0", "\n">>, None),
      File(<<"x", "\n">>, None),
      Unreadable}]

SetCpuFile == SetSysfs(CpuFiles)

CallReadCpuQuota ==
    /\ call' = [op |-> "read_cpu_quota", cores |-> read_cpu_quota(sysfs)]
    /\ UNCHANGED <<now, os, envVars, appVars, samplerVars, rmVars, files,
                   histVars>>

NextQuota == SetCpuFile \/ CallReadCpuQuota

SpecQuota == InitCpu /\ [][NextQuota]_vars

(***************************************************************************)
(* C17: a successful save_recording leaves the ring buffer as it was,      *)
(* stores a file whose recording has exactly the buffer's batches in       *)
(* order, and returns a count equal to the buffer length and to the stored *)
(* snapshot_count; start_time and end_time are the timestamps of the first *)
(* and the last buffered batch.                                            *)
(***************************************************************************)
C17_SaveCopiesWholeBuffer ==
    [][(call'.op = "save_recording" /\ call'.ret.some) =>
         LET id == RecordingId(now \div 1000, call'.pid)
             stored == [metadata |-> [id |-> id,
                                      start_time |-> buffer[1].timestamp,
                                      end_time |-> buffer[Len(buffer)].timestamp,
                                      trigger_pid |-> call'.pid,
                                      trigger_name |-> call'.name,
                                      snapshot_count |-> Len(buffer),
                                      file_path |-> FilePath(id)],
                        snapshots |-> buffer]
         IN /\ buffer' = buffer
            /\ buffer # <<>>
            /\ id \in DOMAIN files'
            /\ files'[id] = EncodedFile(stored)
            /\ call'.ret = Some(Len(buffer))
            /\ call'.ret.val = stored.metadata.snapshot_count]_vars

C17_Witness ==
    /\ call.op = "save_recording"
    /\ call.ret = Some(2)
    /\ Len(pushed) > Len(buffer)
    /\ Len(buffer) = 2
    /\ buffer[1].timestamp # buffer[2].timestamp
    /\ RecordingId(now \div 1000, call.pid) \in DOMAIN files

(***************************************************************************)
(* C18: round trip.  Loading the recording a successful save_recording     *)
(* has just written, by the identifier the save gave it, succeeds and      *)
(* yields the metadata and the snapshot sequence that were written, field  *)
(* for field; a later load_recording call on that identifier returns the   *)
(* same.                                                                   *)
(***************************************************************************)
C18_SaveThenLoadRoundTrip ==
    /\ [][(call'.op = "save_recording" /\ call'.ret.some) =>
         LET id == RecordingId(now \div 1000, call'.pid)
             loaded == load_recording(files', id, TRUE)
         IN /\ loaded.ok
            /\ loaded.val.metadata.id = id
            /\ loaded.val.metadata.start_time = buffer[1].timestamp
            /\ loaded.val.metadata.end_time = buffer[Len(buffer)].timestamp
            /\ loaded.val.metadata.trigger_pid = call'.pid
            /\ loaded.val.metadata.trigger_name = call'.name
            /\ loaded.val.metadata.snapshot_count = Len(buffer)
            /\ loaded.val.metadata.file_path = FilePath(id)
            /\ loaded.val.snapshots = buffer]_vars
    /\ [](\A pid \in DOMAIN last_success :
             LET id == RecordingId(last_success[pid] \div 1000, pid)
             IN (call.op = "load_recording" /\ call.id = id /\ call.open_ok) =>
                    /\ call.result.ok
                    /\ call.result.val.metadata.id = id
                    /\ call.result.val.metadata.trigger_pid = pid
                    /\ call.result.val.metadata.file_path = FilePath(id)
                    /\ call.result.val.metadata.snapshot_count
                           = Len(call.result.val.snapshots)
                    /\ call.result.val.metadata.start_time
                           = call.result.val.snapshots[1].timestamp
                    /\ call.result.val.metadata.end_time
                           = call.result.val.snapshots[
                                 Len(call.result.val.snapshots)].timestamp
                    /\ files[id] = EncodedFile(call.result.val))

C18_Witness ==
    /\ call.op = "load_recording"
    /\ call.open_ok
    /\ call.id \in DOMAIN files \ DOMAIN ForeignDir
    /\ call.result.ok
    /\ Len(call.result.val.snapshots) = 2
    /\ call.result.val.metadata.start_time # call.result.val.metadata.end_time
    /\ call.result.val.metadata.trigger_name = <<"a">>
    /\ call.result.val.snapshots[1].processes # <<>>

(***************************************************************************)
(* C19: loading a file that is shorter than the 5-byte header, or whose    *)
(* first 4 bytes are not the magic tag, or whose 5th byte is not version   *)
(* 1, returns an error and no recording; the error kind is InvalidData for *)
(* the magic and the version mismatch.                                     *)
(***************************************************************************)
C19_BadHeaderIsAnError ==
    (call.op = "load_recording" /\ call.id \in DOMAIN files /\ call.open_ok) =>
        LET file == files[call.id]
        IN /\ ~file.header_complete =>
                  (~call.result.ok /\ "val" \notin DOMAIN call.result)
           /\ (file.header_complete /\ file.magic # MAGIC) =>
                  /\ ~call.result.ok
                  /\ "val" \notin DOMAIN call.result
                  /\ call.result.kind = "InvalidData"
           /\ (file.header_complete /\ file.version # VERSION) =>
                  /\ ~call.result.ok
                  /\ "val" \notin DOMAIN call.result
                  /\ call.result.kind = "InvalidData"

C19_Witness ==
    /\ call.op = "load_recording"
    /\ call.open_ok
    /\ call.id = <<"foreign", "version">>
    /\ files[call.id].magic = MAGIC
    /\ files[call.id].version = VERSION + 1
    /\ deserialize(files[call.id].data).ok
    /\ call.result = IoErr("InvalidData", "unsupported recording version")

(***************************************************************************)
(* C20: a recording file is never partially written: after a               *)
(* save_recording attempt that touched the directory, the file of that     *)
(* attempt is a complete recording that loads.                             *)
(***************************************************************************)
C20_NoPartialFile ==
    (call.op = "save_recording" /\ call.files_changed) =>
        LET id == RecordingId(now \div 1000, call.pid)
        IN /\ id \in DOMAIN files
           /\ load_recording(files, id, TRUE).ok


(***************************************************************************)
(* C21: a stored recording is immutable: no save_recording call changes or *)
(* replaces a file of the directory that holds a recording; the file a     *)
(* successful save writes is a new one.                                    *)
(***************************************************************************)
C21_SavesNeverTouchStoredRecordings ==
    [][call'.op = "save_recording" =>
         /\ \A f \in DOMAIN files :
               load_recording(files, f, TRUE).ok =>
                   f \in DOMAIN files' /\ files'[f] = files[f]
         /\ call'.ret.some =>
               LET id == RecordingId(SystemTimeSecs(now), call'.pid)
               IN ~(id \in DOMAIN files /\ load_recording(files, id, TRUE).ok)]_vars


(***************************************************************************)
(* C22: when a save_recording of a Live tick fails on a file create or     *)
(* write error, the tick sets a status message that reports the failure.   *)
(* A save that finds a batch in the buffer and is not debounced returns    *)
(* None only on such an error.                                             *)
(***************************************************************************)
C22_SaveFailureIsSurfaced ==
    [][(/\ call'.op = "tick"
        /\ buffer # <<>>
        /\ \E i \in 1..Len(call'.saves) :
              /\ ~call'.saves[i].ret.some
              /\ ~Debounced(last_saved_pids, call'.saves[i].pid, now))
         => /\ status_message'.some
            /\ status_message'.val.expires_at = now + STATUS_MS
            /\ status_message'.val.text # "Recording saved"]_vars


(***************************************************************************)
(* The files of a directory that list_recordings is to report: those with  *)
(* the recording extension that open and decode, each with the metadata    *)
(* stored in it and the path it was read from.                             *)
(***************************************************************************)
Listable(dir) ==
    {f \in DOMAIN dir :
        /\ dir[f].ext = "bin"
        /\ dir[f].readable
        /\ dir[f].header_complete
        /\ dir[f].magic = MAGIC
        /\ dir[f].version = VERSION
        /\ deserialize(dir[f].data).ok}

StoredMetadata(dir, f) ==
    [deserialize(dir[f].data).val.metadata EXCEPT !.file_path = FilePath(f)]

IsListingOf(result, dir) ==
    /\ Len(result) = Cardinality(Listable(dir))
    /\ {result[i] : i \in 1..Len(result)}
          = {StoredMetadata(dir, f) : f \in Listable(dir)}
    /\ \A i, j \in 1..Len(result) :
          i < j => result[i].end_time >= result[j].end_time

(***************************************************************************)
(* C23 as stated: list_recordings returns exactly the metadata of the      *)
(* files of the directory that have the recording extension and decode,    *)
(* ordered by end_time non-increasing.                                     *)
(***************************************************************************)
C23_ListIsTheDecodableFiles ==
    call.op = "list_recordings" => IsListingOf(call.result, files)

(***************************************************************************)
(* C23, amended: when the directory can be read, list_recordings returns   *)
(* exactly the metadata of its files that have the recording extension,    *)
(* open and decode, ordered by end_time non-increasing; when the directory *)
(* cannot be read it returns the empty list.                               *)
(***************************************************************************)
C23_ListWhenDirectoryReadable ==
    call.op = "list_recordings" =>
        IF call.entries.some
        THEN IsListingOf(call.result, files)
        ELSE call.result = <<>>

C23_Witness ==
    /\ call.op = "list_recordings"
    /\ call.entries.some
    /\ Cardinality(DOMAIN files) = 3
    /\ <<"notes">> \in DOMAIN files
    /\ Len(call.result) = 2
    /\ call.result[1].end_time > call.result[2].end_time
    /\ call.entries.val[1] = call.result[2].id


(***************************************************************************)
(* C24: a failed delete is surfaced and not treated as completed: when     *)
(* delete_recording returns an error to the list's key handler, the        *)
(* handler sets a status message that carries the error, the directory is  *)
(* as it was, and the mode is still the list, re-read from the directory,  *)
(* with a selection inside it (0 when it is empty).                        *)
(***************************************************************************)
C24_FailedDeleteIsSurfaced ==
    [][(call'.op = "list_delete" /\ call'.ret.some /\ ~call'.ret.val.ok) =>
         /\ files' = files
         /\ call'.entry.val.id \in DOMAIN files => call'.entry.val.id \in DOMAIN files'
         /\ status_message' =
                Some([text |-> "Failed to delete recording: "
                                   \o call'.ret.val.error,
                      expires_at |-> now + STATUS_MS])
         /\ mode'.tag = "RecordingList"
         /\ IF dir_readable THEN IsListingOf(mode'.recordings, files')
                            ELSE mode'.recordings = <<>>
         /\ IF mode'.recordings = <<>> THEN mode'.selected = 0
            ELSE mode'.selected \in 0..(Len(mode'.recordings) - 1)]_vars

C24_Witness ==
    /\ call.op = "list_delete"
    /\ call.ret.some
    /\ ~call.ret.val.ok
    /\ call.entry.val.id \in DOMAIN files
    /\ mode.tag = "RecordingList"
    /\ Len(mode.recordings) = 2
    /\ mode.selected = 1
    /\ status_message.some
    /\ status_message.val.expires_at = now + STATUS_MS


(***************************************************************************)
(* What the retention sweep is to do with the files of the directory,      *)
(* given what it learnt of each: a file with the recording extension whose *)
(* age is known and over the maximum is gone unless its removal failed,    *)
(* and every other file is as it was.                                      *)
(***************************************************************************)
IsSweepOf(after, before, stat, max_age) ==
    \A f \in DOMAIN before :
        LET over == /\ before[f].ext = "bin"
                    /\ stat[f].stat_ok
                    /\ stat[f].age.some
                    /\ stat[f].age.val > max_age
        IN IF over /\ stat[f].remove_ok
           THEN f \notin DOMAIN after
           ELSE f \in DOMAIN after /\ after[f] = before[f]

(***************************************************************************)
(* C25 as stated: the startup sweep deletes every file with the recording  *)
(* extension whose age exceeds the maximum age and leaves every other file *)
(* untouched, whatever the file holds; a file whose metadata cannot be     *)
(* read or whose removal fails is skipped.                                 *)
(***************************************************************************)
C25_SweepRemovesEveryOldFile ==
    [][call'.op = "new" =>
         IsSweepOf(files', files, call'.stat, call'.max_age)]_vars

(***************************************************************************)
(* C25, amended: the same when the directory can be read; when it cannot,  *)
(* the sweep removes nothing.                                              *)
(***************************************************************************)
C25_SweepWhenDirectoryReadable ==
    [][call'.op = "new" =>
         /\ DOMAIN files' \subseteq DOMAIN files
         /\ IF dir_readable
            THEN IsSweepOf(files', files, call'.stat, call'.max_age)
            ELSE files' = files]_vars

C25_Witness ==
    /\ call.op = "new"
    /\ dir_readable
    /\ <<"foreign", "magic">> \in DOMAIN call.stat \ DOMAIN files
    /\ \E g \in DOMAIN files :
          /\ files[g].ext = "bin"
          /\ call.stat[g].age = Some(call.max_age)
    /\ \E h \in DOMAIN files :
          /\ files[h].ext = "bin"
          /\ call.stat[h].age = Some(call.max_age + 1)
          /\ ~call.stat[h].remove_ok


(***************************************************************************)
(* C26: after every tick, the key sets of the growth windows, of the CPU   *)
(* counter store and of the disk counter store are each the set of PIDs    *)
(* enumerated in that tick.                                                *)
(***************************************************************************)
Enumerated == Present(ReadProc(os, proc_readable))

C26_StoresHoldTheEnumeratedPids ==
    call.op = "tick" =>
        /\ DOMAIN growth_windows = Enumerated
        /\ DOMAIN cpu_samples = Enumerated
        /\ DOMAIN disk_samples = Enumerated

(***************************************************************************)
(* C27: a process enumerated for the first time finds no entry under its   *)
(* PID in any store, so that nothing is computed against the readings of   *)
(* an earlier process that held the PID: its disk rates are absent and its *)
(* growth window starts with this one sample.                              *)
(***************************************************************************)
FirstObservation(p) ==
    p \notin DOMAIN observed \/ observed[p].incarnation # incarnation[p]

C27_NoDeltaAgainstAnEarlierProcess ==
    [][(call'.op = "tick" /\ proc_readable) =>
        \A p \in Present(os) :
            FirstObservation(p) =>
                /\ ~Lookup(cpu_samples, p).some
                /\ ~Lookup(disk_samples, p).some
                /\ ~compute_disk_rates(p, os[p].val.read_bytes,
                                       os[p].val.write_bytes, now,
                                       disk_samples).read_rate.some
                /\ growth_windows'[p] = <<(<<now, os[p].val.uss>>)>>]_vars

(***************************************************************************)
(* C28: the computed CPU% is never negative, and it is 0 on the first      *)
(* observation of a PID, when the reading is the same as or lower than the *)
(* previous one, and when no wall time has elapsed since the previous one. *)
(***************************************************************************)
C28_CpuPercentIsZeroWithoutProgress ==
    call.op = "compute_cpu_percent" =>
        /\ call.cpu_percent.kind = "finite" =>
               call.cpu_percent.num >= 0 /\ call.cpu_percent.den > 0
        /\ ~call.previous.some => call.cpu_percent = Zero
        /\ (call.previous.some
               /\ call.total_time <= call.previous.val.total_time) =>
               call.cpu_percent = Zero
        /\ (call.previous.some /\ now <= call.previous.val.timestamp) =>
               call.cpu_percent = Zero

(***************************************************************************)
(* C29: in a tick that enumerates the processes, the disk rates of a PID   *)
(* without a counter entry are absent, those of a PID with an entry are    *)
(* present and not negative, and the entry of every enumerated PID becomes *)
(* the readings and the instant of this tick.                              *)
(***************************************************************************)
NotNegative(rate) ==
    rate.some /\ rate.val.kind = "finite" /\ rate.val.num >= 0
              /\ rate.val.den > 0

C29_DiskRatesFromTheSecondObservation ==
    [][(call'.op = "tick" /\ proc_readable) =>
        \A p \in Present(os) :
            LET r == compute_disk_rates(p, os[p].val.read_bytes,
                                        os[p].val.write_bytes, now,
                                        disk_samples)
            IN /\ p \notin DOMAIN disk_samples =>
                      ~r.read_rate.some /\ ~r.write_rate.some
               /\ p \in DOMAIN disk_samples =>
                      NotNegative(r.read_rate) /\ NotNegative(r.write_rate)
               /\ r.samples[p] = [read_bytes |-> os[p].val.read_bytes,
                                  write_bytes |-> os[p].val.write_bytes,
                                  timestamp |-> now]
               /\ disk_samples'[p] = r.samples[p]]_vars

\* a second observation of a process that has read and written
C29_Witness ==
    /\ call.op = "tick"
    /\ \E p \in DOMAIN disk_samples :
           /\ p \in DOMAIN observed
           /\ Len(observed[p].run) >= 2
           /\ disk_samples[p].write_bytes > 0
           /\ disk_samples[p].timestamp = now

(***************************************************************************)
(* C30: a PID has a growth window exactly while it is in an unbroken run   *)
(* of observations, and the window is the most recent min(k, 10) samples   *)
(* of that run of k, oldest first: never empty, never more than 10.        *)
(***************************************************************************)
C30_WindowIsTheEndOfTheRun ==
    /\ DOMAIN growth_windows = {p \in DOMAIN observed : observed[p].run # <<>>}
    /\ \A p \in DOMAIN growth_windows :
           /\ growth_windows[p] = Suffix(observed[p].run, GROWTH_WINDOW)
           /\ Len(growth_windows[p]) \in 1..GROWTH_WINDOW
           /\ \A i \in 1..(Len(growth_windows[p]) - 1) :
                  growth_windows[p][i][1] < growth_windows[p][i + 1][1]

\* the eleventh observation of a run has pushed the first one out
C30_Witness ==
    /\ call.op = "tick"
    /\ \E p \in DOMAIN growth_windows :
           /\ Len(observed[p].run) = GROWTH_WINDOW + 1
           /\ Len(growth_windows[p]) = GROWTH_WINDOW
           /\ growth_windows[p][1] = observed[p].run[2]

(***************************************************************************)
(* C31: the growth rate is absent for a window of fewer than 3 samples and *)
(* for one whose newest sample is not later than its oldest; otherwise it  *)
(* is (newest value - oldest value) over the minutes between the two, of   *)
(* either sign, whatever the samples in between.                           *)
(***************************************************************************)
C31_GrowthRateFromOldestAndNewest ==
    call.op = "compute_growth_rate" =>
        LET n == Len(call.samples)
            oldest == call.samples[1]
            newest == call.samples[n]
            rate == call.growth_rate
        IN IF n < 3 \/ newest[1] - oldest[1] <= 0
           THEN ~rate.some
           ELSE /\ rate.some
                /\ rate.val.kind = "finite"
                /\ rate.val.den > 0
                \* rate = delta bytes / (elapsed ms / 60000)
                /\ rate.val.num * (newest[1] - oldest[1])
                       = (newest[2] - oldest[2]) * 60000 * rate.val.den

\* a shrinking process whose last step alone is a growth
C31_Witness ==
    /\ call.op = "compute_growth_rate"
    /\ Len(call.samples) = 3
    /\ call.samples[1][2] > call.samples[3][2]
    /\ call.samples[2][2] < call.samples[3][2]
    /\ call.samples[2][1] < call.samples[3][1]
    /\ call.growth_rate.some
    /\ call.growth_rate.val.num < 0


(***************************************************************************)
(* C32: read_pod_memory gives usage 0 and no limit when neither limit file *)
(* exists; when the v2 limit file exists its result comes from the v2      *)
(* files alone, whatever the v1 files hold; when only the v1 limit file    *)
(* exists it comes from the v1 files.  A file that cannot be read or holds *)
(* no number gives usage 0 or no limit.                                    *)
(***************************************************************************)
Number(path) ==
    IF path \in DOMAIN sysfs /\ sysfs[path].readable
    THEN sysfs[path].value ELSE None

C32_MemoryFromOneLayout ==
    call.op = "read_pod_memory" =>
        LET v2 == "/sys/fs/cgroup/memory.max" \in DOMAIN sysfs
            v1 == "/sys/fs/cgroup/memory/memory.limit_in_bytes" \in DOMAIN sysfs
            usage == call.ret.cgroup_usage
            limit == call.ret.cgroup_limit
        IN /\ (~v2 /\ ~v1) => usage = U64(0) /\ limit = None
           /\ v2 =>
                 /\ usage = unwrap_or(Number("/sys/fs/cgroup/memory.current"),
                                      U64(0))
                 /\ limit = Number("/sys/fs/cgroup/memory.max")
           /\ (~v2 /\ v1) =>
                 /\ usage = unwrap_or(
                                Number("/sys/fs/cgroup/memory/memory.usage_in_bytes"),
                                U64(0))
                 /\ limit \in {None,
                               Number("/sys/fs/cgroup/memory/memory.limit_in_bytes")}

\* both layouts are there with other numbers, and the v2 numbers are returned
C32_Witness ==
    /\ call.op = "read_pod_memory"
    /\ Number("/sys/fs/cgroup/memory.max") = Some(U64(8))
    /\ Number("/sys/fs/cgroup/memory.current") = Some(U64(3))
    /\ Number("/sys/fs/cgroup/memory/memory.limit_in_bytes") = Some(SENTINEL)
    /\ Number("/sys/fs/cgroup/memory/memory.usage_in_bytes") = Some(U64(4))
    /\ call.ret.cgroup_usage = U64(3)
    /\ call.ret.cgroup_limit = Some(U64(8))

(***************************************************************************)
(* C33: a v1 limit of 2^62 or more is no limit, and every v1 limit below   *)
(* 2^62 is returned.                                                       *)
(***************************************************************************)
C33_SentinelAndAboveIsNoLimit ==
    (/\ call.op = "read_pod_memory"
     /\ "/sys/fs/cgroup/memory.max" \notin DOMAIN sysfs
     /\ Number("/sys/fs/cgroup/memory/memory.limit_in_bytes").some) =>
        LET value == Number("/sys/fs/cgroup/memory/memory.limit_in_bytes").val
        IN call.ret.cgroup_limit =
               IF U64Less(value, SENTINEL) THEN Some(value) ELSE None


(***************************************************************************)
(* C34: read_cpu_quota returns a core count only when a quota and a period *)
(* were read from the files of the layout in use and both are positive     *)
(* numbers, and the count is then quota / period.                          *)
(***************************************************************************)
\* the words of the file at path, and the positive number a word writes
Words(path) ==
    IF path \in DOMAIN sysfs /\ sysfs[path].readable
    THEN split_whitespace(sysfs[path].text, <<>>) ELSE <<>>

Positive(word) ==
    LET n == parse_u64(word)
    IN IF n.some /\ n.val # U64(0) THEN n ELSE None

QuotaAndPeriod ==
    IF "/sys/fs/cgroup/cpu.max" \in DOMAIN sysfs
    THEN Words("/sys/fs/cgroup/cpu.max")
    ELSE Words("/sys/fs/cgroup/cpu/cpu.cfs_quota_us")
             \o Words("/sys/fs/cgroup/cpu/cpu.cfs_period_us")

C34_CoresOnlyFromPositiveQuotaAndPeriod ==
    call.op = "read_cpu_quota" =>
        LET words == QuotaAndPeriod
            both == /\ Len(words) = 2
                    /\ Positive(words[1]).some
                    /\ Positive(words[2]).some
        IN IF both
           THEN call.cores = Some([kind |-> "finite", neg |-> FALSE,
                                   num |-> Positive(words[1]).val,
                                   den |-> Positive(words[2]).val])
           ELSE call.cores = None

(***************************************************************************)
(* C35: in the live view, with no filter being edited and no confirmation  *)
(* pending, the key 'w' toggles the watch membership of the selected       *)
(* process.                                                                *)
(***************************************************************************)
C35_WKeyTogglesWatch ==
    [][call'.op = "live_w" =>
        LET process == selected_process(processes, view_state.selected)
        IN process.some =>
               watched_pids' =
                   IF process.val.pid \in watched_pids
                   THEN watched_pids \ {process.val.pid}
                   ELSE watched_pids \cup {process.val.pid}]_vars

(***************************************************************************)
(* C36: in a live tick, save_recording is invoked for a PID, and the PID   *)
(* leaves the watch set, only if the PID is absent from the processes      *)
(* enumerated in this tick; a watched process that runs but is hidden by   *)
(* the filter triggers no save and stays watched.                          *)
(***************************************************************************)
C36_SaveOnlyForPidsAbsentFromTheEnumeration ==
    [][(call'.op = "tick" /\ call'.mode = "Live") =>
        LET enumerated == PidsOf(collect_processes(ReadProc(os, proc_readable)))
        IN /\ \A i \in 1..Len(call'.saves) : call'.saves[i].pid \notin enumerated
           /\ (watched_pids \ watched_pids') \cap enumerated = {}]_vars

(***************************************************************************)
(* C38: every recording saved by a live tick has the triggering PID in its *)
(* final snapshot batch, and its trigger name is the name of that process  *)
(* in that batch.  The saves of a tick copy the ring buffer as it is       *)
(* before the tick adds its own batch.                                     *)
(***************************************************************************)
C38_TriggerIsInTheFinalBatch ==
    [][(call'.op = "tick" /\ call'.mode = "Live") =>
        \A i \in 1..Len(call'.saves) :
            call'.saves[i].ret.some =>
                LET final == buffer[Len(buffer)].processes
                IN /\ call'.saves[i].pid \in PidsOf(final)
                   /\ call'.saves[i].name = NameOf(final, call'.saves[i].pid)]_vars

C39_DebounceIsPerPidAndStartsOnSuccess ==
    (call.op = "save_recording" /\ ~call.buffer_was_empty) =>
        LET within == /\ call.since_success.some
                      /\ call.since_success.val < DEBOUNCE_MS
        IN /\ within =>
                 ~call.ret.some /\ ~call.files_changed /\ ~call.saved_changed
           /\ (~within /\ call.io = "ok") => call.ret.some

\* the first save for one PID succeeds inside the debounce window of
\* another PID
C39_Witness ==
    /\ call.op = "save_recording"
    /\ call.ret.some
    /\ ~call.since_success.some
    /\ \E q \in DOMAIN last_success :
          q # call.pid /\ now - last_success[q] < DEBOUNCE_MS

(***************************************************************************)
(* C40: a process is terminated only by the key 'y' while a confirmation   *)
(* is pending, and the process is the one whose PID the confirmation       *)
(* captured from the selection when 'k' opened it.  A confirmation is      *)
(* pending only in Live mode; while it is pending, the only keys that act  *)
(* are 'y', 'n' or Esc and the ignored ones, none of which changes the     *)
(* mode, the selection, the filter or the watch set; 'y' and 'n' or Esc    *)
(* clear it.                                                               *)
(***************************************************************************)
NotAKey == {"tick", "elapse", "spawn", "exit"}

C40_KillOnlyOnConfirmedYes ==
    [][/\ (killed' # killed \/ call'.op = "confirm_yes") =>
            /\ call'.op = "confirm_yes"
            /\ confirm_kill.some
            /\ killed' = killed \cup {confirm_kill.val.pid}
       /\ (call'.op = "live_k" /\ confirm_kill'.some) =>
            LET process == selected_process(processes, view_state.selected)
            IN process.some /\ confirm_kill'.val.pid = process.val.pid
       /\ (confirm_kill.some /\ confirm_kill'.some) => confirm_kill' = confirm_kill
       /\ confirm_kill'.some => mode'.tag = "Live"
       /\ (confirm_kill.some /\ call'.op \notin NotAKey) =>
            /\ call'.op \in {"confirm_yes", "confirm_no", "confirm_other"}
            /\ UNCHANGED <<mode, view_state, watched_pids>>
       /\ call'.op \in {"confirm_yes", "confirm_no"} => ~confirm_kill'.some]_vars

\* 'y' has terminated the captured process after a tick had moved the
\* selection to another process
C40_Witness ==
    /\ call.op = "confirm_yes"
    /\ killed # {}
    /\ LET process == selected_process(processes, view_state.selected)
       IN process.some /\ process.val.pid \notin killed

====
